---- MODULE Spec2Model ----
(***************************************************************************)
(* Model of the airbnb_comparer backend: the SQLite document store         *)
(* (backend/db_helpers.py), the write paths built on it                    *)
(* (backend/scraper.py, backend/data_retrieval.py) and the parts of the    *)
(* URL parser and of the normalisation pipeline those paths run through.   *)
(*                                                                         *)
(* Python strings are sequences of tokens (Seq(STRING)); Python values are *)
(* tagged records [t, n, s]; a record (dict) is a function from its keys   *)
(* to values; floats are counted in hundredths.                            *)
(***************************************************************************)
EXTENDS Integers, Sequences, FiniteSets, TLC

\* ------------------------------------------------------------------------
\* Bounds of the model and program constants
\* ------------------------------------------------------------------------
\* highest cost a caller passes to update_listing_costs
MaxCost == 2
\* how many storage faults (failing statements, failing commits) the
\* environment injects in one behaviour
MaxFaults == 1
\* listing ids the callers use 
Ids == {1, 2}

\* ------------------------------------------------------------------------
\* Python values
\* ------------------------------------------------------------------------
PyInt(i) == [t |-> "int", n |-> i, s |-> <<>>]
PyFloat(h) == [t |-> "float", n |-> h, s |-> <<>>]
PyStr(str) == [t |-> "str", n |-> 0, s |-> str]
PyNone == [t |-> "none", n |-> 0, s |-> <<>>]

PyList(items) == [t |-> "list", n |-> 0, s |-> <<>>, items |-> items]
PyDict(d) == [t |-> "dict", n |-> 0, s |-> <<>>, d |-> d]

EmptyDict == <<>>

\* str.strip(): drop leading and trailing blanks
RECURSIVE LStrip(_)
LStrip(str) ==
    IF str # <<>> /\ Head(str) = " " THEN LStrip(Tail(str)) ELSE str

RECURSIVE RStrip(_)
RStrip(str) ==
    IF str # <<>> /\ str[Len(str)] = " "
    THEN RStrip(SubSeq(str, 1, Len(str) - 1))
    ELSE str

Strip(str) == RStrip(LStrip(str))

\* bool(v), as "if not v" uses it
Truthy(v) ==
    CASE v.t = "none" -> FALSE
      [] v.t \in {"int", "float"} -> v.n # 0
      [] v.t = "str" -> v.s # <<>>
      [] v.t = "list" -> v.items # <<>>
      [] v.t = "dict" -> DOMAIN v.d # {}

\* "key in v" works on a dict (its keys), a list (its elements) and a str
\* (substring); on a number or None it raises TypeError
CanContain(v) == v.t \in {"dict", "list", "str"}
Contains(v, key) ==
    CASE v.t = "dict" -> key \in DOMAIN v.d
      [] v.t = "list" -> \E i \in DOMAIN v.items : v.items[i] = PyStr(<<key>>)
      [] v.t = "str" -> \E i \in DOMAIN v.s : v.s[i] = key

\* v["key"] works on a dict only: TypeError on a list or a str
CanIndex(v) == v.t = "dict"

\* v.get(key, default) of a dict
Get(d, key, default) == IF key \in DOMAIN d THEN d[key] ELSE default

RECURSIVE SetToSeq(_)
SetToSeq(set) ==
    IF set = {} THEN <<>>
    ELSE LET x == CHOOSE y \in set : TRUE
         IN <<x>> \o SetToSeq(set \ {x})

\* "for e in v" works on a list, a dict (its keys) and a str (its
\* characters); on a number it raises TypeError
CanIterate(v) == v.t \in {"list", "dict", "str"}
Elements(v) ==
    CASE v.t = "list" -> v.items
      [] v.t = "dict" -> LET keys == SetToSeq(DOMAIN v.d)
                         IN [i \in DOMAIN keys |-> PyStr(<<keys[i]>>)]
      [] v.t = "str" -> [i \in DOMAIN v.s |-> PyStr(<<v.s[i]>>)]

\* ------------------------------------------------------------------------
\* json.dumps / json.loads on flat records
\* ------------------------------------------------------------------------
DigitChar == <<"0", "1", "2", "3", "4", "5", "6", "7", "8", "9">>
IsDigit(c) == \E d \in 1..10 : DigitChar[d] = c
DigitVal(c) == (CHOOSE d \in 1..10 : DigitChar[d] = c) - 1

RECURSIVE NatLit(_)
NatLit(i) ==
    IF i < 10 THEN <<DigitChar[i + 1]>>
    ELSE NatLit(i \div 10) \o <<DigitChar[(i % 10) + 1]>>

IntLit(i) == IF i < 0 THEN <<"-">> \o NatLit(-i) ELSE NatLit(i)

\* repr of a float held in hundredths: 8000 -> 80.0, 1250 -> 12.5, 5 -> 0.05
FloatLit(h) ==
    LET FracLit(f) ==
            IF f % 10 = 0 THEN <<DigitChar[(f \div 10) + 1]>>
            ELSE <<DigitChar[(f \div 10) + 1], DigitChar[(f % 10) + 1]>>
    IN IF h < 0
       THEN <<"-">> \o NatLit((-h) \div 100) \o <<".">> \o FracLit((-h) % 100)
       ELSE NatLit(h \div 100) \o <<".">> \o FracLit(h % 100)

\* json.dumps(listing_data): one literal per key of the object, the literal
\* json.dumps writes for its value
JsonDumps(rec) ==
    LET ValueLit(v) ==
            CASE v.t = "int" -> IntLit(v.n)
              [] v.t = "float" -> FloatLit(v.n)
              [] v.t = "str" -> <<"\"">> \o v.s \o <<"\"">>
              [] OTHER -> <<"null">>
    IN [k \in DOMAIN rec |-> ValueLit(rec[k])]

IsNatLit(str) == str # <<>> /\ \A i \in 1..Len(str) : IsDigit(str[i])

RECURSIVE ParseNat(_)
ParseNat(str) ==
    IF Len(str) = 1 THEN DigitVal(str[1])
    ELSE 10 * ParseNat(SubSeq(str, 1, Len(str) - 1)) + DigitVal(str[Len(str)])

DotAt(str) == CHOOSE i \in 1..Len(str) : str[i] = "."

IsFloatLit(str) ==
    /\ \E i \in 1..Len(str) : str[i] = "."
    /\ IsNatLit(SubSeq(str, 1, DotAt(str) - 1))
    /\ IsNatLit(SubSeq(str, DotAt(str) + 1, Len(str)))
    /\ Len(str) - DotAt(str) <= 2

ParseFrac(str) == IF Len(str) = 1 THEN 10 * DigitVal(str[1]) ELSE ParseNat(str)

ParseFloat(str) ==
    100 * ParseNat(SubSeq(str, 1, DotAt(str) - 1))
        + ParseFrac(SubSeq(str, DotAt(str) + 1, Len(str)))

Unsigned(lit) == IF lit # <<>> /\ Head(lit) = "-" THEN Tail(lit) ELSE lit
Sign(lit) == IF lit # <<>> /\ Head(lit) = "-" THEN -1 ELSE 1

\* json.loads raises JSONDecodeError unless every literal is one the decoder
\* accepts
JsonValid(text) ==
    LET LitValid(lit) ==
            \/ lit = <<"null">>
            \/ Len(lit) >= 2 /\ Head(lit) = "\"" /\ lit[Len(lit)] = "\""
            \/ IsNatLit(Unsigned(lit))
            \/ IsFloatLit(Unsigned(lit))
    IN \A k \in DOMAIN text : LitValid(text[k])

\* json.loads: the value the decoder builds from each literal it accepts
JsonLoads(text) ==
    LET LitValue(lit) ==
            CASE lit = <<"null">> -> PyNone
              [] Len(lit) >= 2 /\ Head(lit) = "\"" ->
                    PyStr(SubSeq(lit, 2, Len(lit) - 1))
              [] IsNatLit(Unsigned(lit)) ->
                    PyInt(Sign(lit) * ParseNat(Unsigned(lit)))
              [] OTHER -> PyFloat(Sign(lit) * ParseFloat(Unsigned(lit)))
    IN [k \in DOMAIN text |-> LitValue(text[k])]

\* str(v)
Str(v) ==
    CASE v.t = "str" -> v.s
      [] v.t = "int" -> IntLit(v.n)
      [] v.t = "float" -> FloatLit(v.n)
      [] v.t = "none" -> <<"None">>
      [] v.t = "list" -> <<"[...]">>
      [] v.t = "dict" -> <<"{...}">>

\* ------------------------------------------------------------------------
\* Outcomes of a call
\* ------------------------------------------------------------------------
NoVal == [t |-> "none", b |-> FALSE, n |-> 0, rec |-> EmptyDict]
BoolVal(x) == [t |-> "bool", b |-> x, n |-> 0, rec |-> EmptyDict]
IntVal(x) == [t |-> "int", b |-> FALSE, n |-> x, rec |-> EmptyDict]
ListVal(items) ==
    [t |-> "list", n |-> Len(items), rec |-> EmptyDict, b |-> FALSE, items |-> items]
DictVal(r) == [t |-> "dict", b |-> FALSE, n |-> 0, rec |-> r]

Return(v) == [kind |-> "return", err |-> "", val |-> v]
Raise(e) == [kind |-> "raise", err |-> e, val |-> NoVal]

\* ------------------------------------------------------------------------
\* The database file and one DatabaseManager's connection
\* ------------------------------------------------------------------------
\* the file before create_tables ran: no table main
EmptyFile == [schema |-> FALSE, rows |-> <<>>]

\* self._connection: None, or a handle with the PRAGMAs applied to it; id
\* tells the handles opened since the last close() apart
NoConnection == [open |-> FALSE, fk |-> FALSE, wal |-> FALSE, id |-> 0]

\* DatabaseManager(database_path): no connection yet, nothing pending
NewManager(f) == [file |-> f, conn |-> NoConnection, txn |-> FALSE, work |-> f]

\* what the statements of this connection see: its own uncommitted changes
\* when it has a transaction open, the committed file otherwise
View(st) == IF st.txn THEN st.work ELSE st.file

FaultKinds ==
    {"none", "connect", "pragma_fk", "pragma_wal", "execute", "commit_keep", "commit_undo"}

\* _get_connection that connects on every call, whether a handle is held
\* or not
GetConnectionAlwaysNew(st, f) ==
    LET Connected(fk, wal) ==
            [st EXCEPT !.conn = [open |-> TRUE, fk |-> fk, wal |-> wal,
                                 id |-> IF st.conn.id = 1 THEN 2 ELSE 1],
                       !.txn = FALSE, !.work = st.file]
    IN CASE f = "connect" -> [st |-> st, ok |-> FALSE]
         [] f = "pragma_fk" -> [st |-> Connected(FALSE, FALSE), ok |-> FALSE]
         [] f = "pragma_wal" -> [st |-> Connected(TRUE, FALSE), ok |-> FALSE]
         [] OTHER -> [st |-> Connected(TRUE, TRUE), ok |-> TRUE]

\* _get_connection: reuse the handle, or connect and apply the two PRAGMAs;
\* the handle is stored in self._connection before the PRAGMAs run. It
\* connects only when no handle is held, so the new handle is the first
\* since the last close()
GetConnectionRaw(st, f) ==
    LET Connected(fk, wal) ==
            [st EXCEPT !.conn = [open |-> TRUE, fk |-> fk, wal |-> wal, id |-> 1],
                       !.txn = FALSE, !.work = st.file]
    IN IF st.conn.open THEN [st |-> st, ok |-> TRUE]
       ELSE CASE f = "connect" -> [st |-> st, ok |-> FALSE]
              [] f = "pragma_fk" -> [st |-> Connected(FALSE, FALSE), ok |-> FALSE]
              [] f = "pragma_wal" -> [st |-> Connected(TRUE, FALSE), ok |-> FALSE]
              [] OTHER -> [st |-> Connected(TRUE, TRUE), ok |-> TRUE]

\* conn.rollback(): the open transaction is dropped
Rollback(st) == [st EXCEPT !.txn = FALSE, !.work = st.file]

\* conn.commit(): nothing to do without a transaction; a failing COMMIT
\* either leaves the transaction open or SQLite has rolled it back
CommitRaw(st, f) ==
    IF ~st.txn THEN [st |-> st, ok |-> TRUE]
    ELSE CASE f = "commit_keep" -> [st |-> st, ok |-> FALSE]
           [] f = "commit_undo" -> [st |-> Rollback(st), ok |-> FALSE]
           [] OTHER ->
                [st |-> [st EXCEPT !.file = st.work, !.txn = FALSE], ok |-> TRUE]

\* get_connection, after the body of the with block ran: roll back and
\* re-raise when the body raised, commit otherwise (the commit is outside
\* the try, so a failing commit is re-raised without a rollback)
ExitConnection(st, bodyOut, f) ==
    IF bodyOut.kind = "raise" THEN [st |-> Rollback(st), out |-> bodyOut]
    ELSE LET c == CommitRaw(st, f)
         IN [st |-> c.st, out |-> IF c.ok THEN bodyOut ELSE Raise("sqlite3.Error")]

\* a statement fails when the environment makes it fail or main is missing
StatementFails(st, f) == f = "execute" \/ ~View(st).schema

\* the working copy after a writing statement; sqlite3 opens the
\* transaction before the first INSERT or DELETE
Written(st, newRows) ==
    [st EXCEPT !.txn = TRUE, !.work = [View(st) EXCEPT !.rows = newRows]]

\* an upsert that keeps the fields of the previous document the new one lacks
UpsertMerging(rows, id, row) ==
    [i \in (DOMAIN rows) \cup {id} |->
        IF i # id THEN rows[i]
        ELSE IF id \in DOMAIN rows
             THEN [row EXCEPT !.json = row.json @@ rows[id].json]
             ELSE row]

Upsert(rows, id, row) ==
    [i \in (DOMAIN rows) \cup {id} |-> IF i = id THEN row ELSE rows[i]]

Remove(rows, id) == [i \in (DOMAIN rows) \ {id} |-> rows[i]]

\* close(): the connection goes, and with it what it had not committed
Close(st) ==
    IF st.conn.open THEN [st EXCEPT !.conn = NoConnection, !.txn = FALSE, !.work = st.file]
    ELSE st

\* create_tables: CREATE TABLE IF NOT EXISTS, then an explicit commit inside
\* the with block, then the commit of get_connection
CreateTables(st, f) ==
    LET c == GetConnectionRaw(st, f)
    IN IF ~c.ok THEN [st |-> c.st, out |-> Raise("sqlite3.Error")]
       ELSE IF f = "execute"
            THEN ExitConnection(c.st, Raise("sqlite3.Error"), f)
            ELSE LET s1 == IF c.st.txn
                           THEN [c.st EXCEPT !.work.schema = TRUE]
                           ELSE [c.st EXCEPT !.file.schema = TRUE, !.work.schema = TRUE]
                     k == CommitRaw(s1, f)
                 IN IF k.ok
                    THEN ExitConnection(k.st, Return(NoVal), "none")
                    ELSE ExitConnection(k.st, Raise("sqlite3.Error"), f)

\* add_entry without its id check: a record without id is stored under 0
AddEntryUnchecked(st, listing_data, f) ==
    LET listing_id == IF "id" \in DOMAIN listing_data THEN listing_data["id"].n ELSE 0
        url == IF "url" \in DOMAIN listing_data THEN listing_data["url"] ELSE PyNone
        c == GetConnectionRaw(st, f)
    IN IF ~c.ok THEN [st |-> c.st, out |-> Raise("sqlite3.Error")]
       ELSE IF StatementFails(c.st, f)
            THEN ExitConnection(c.st, Raise("sqlite3.Error"), f)
            ELSE ExitConnection(
                     Written(c.st, Upsert(View(c.st).rows, listing_id,
                                          [url |-> url, json |-> JsonDumps(listing_data)])),
                     Return(NoVal), f)

\* add_entry: the id check, json.dumps, INSERT OR REPLACE by primary key
AddEntry(st, listing_data, f) ==
    IF "id" \notin DOMAIN listing_data THEN [st |-> st, out |-> Raise("ValueError")]
    ELSE LET listing_id == listing_data["id"].n
             url == IF "url" \in DOMAIN listing_data THEN listing_data["url"] ELSE PyNone
             json_data == JsonDumps(listing_data)
             c == GetConnectionRaw(st, f)
         IN IF ~c.ok THEN [st |-> c.st, out |-> Raise("sqlite3.Error")]
            ELSE IF StatementFails(c.st, f)
                 THEN ExitConnection(c.st, Raise("sqlite3.Error"), f)
                 ELSE ExitConnection(
                          Written(c.st, Upsert(View(c.st).rows, listing_id,
                                               [url |-> url, json |-> json_data])),
                          Return(NoVal), f)

\* get_listing whose SELECT has lost its WHERE clause: the first row is read
GetListingFirstRow(st, listing_id, f) ==
    LET c == GetConnectionRaw(st, f)
    IN IF ~c.ok THEN [st |-> c.st, out |-> Raise("sqlite3.Error")]
       ELSE IF StatementFails(c.st, f)
            THEN ExitConnection(c.st, Raise("sqlite3.Error"), f)
            ELSE LET rows == View(c.st).rows
                     first == CHOOSE i \in DOMAIN rows : \A j \in DOMAIN rows : i <= j
                 IN IF DOMAIN rows # {}
                    THEN IF JsonValid(rows[first].json)
                         THEN ExitConnection(c.st,
                                  Return(DictVal(JsonLoads(rows[first].json))), f)
                         ELSE ExitConnection(c.st, Raise("JSONDecodeError"), f)
                    ELSE ExitConnection(c.st, Return(NoVal), f)

\* get_listing: SELECT json WHERE id = ?, json.loads of the row found
GetListing(st, listing_id, f) ==
    LET c == GetConnectionRaw(st, f)
    IN IF ~c.ok THEN [st |-> c.st, out |-> Raise("sqlite3.Error")]
       ELSE IF StatementFails(c.st, f)
            THEN ExitConnection(c.st, Raise("sqlite3.Error"), f)
            ELSE LET rows == View(c.st).rows
                 IN IF listing_id \in DOMAIN rows
                    THEN IF JsonValid(rows[listing_id].json)
                         THEN ExitConnection(c.st,
                                  Return(DictVal(JsonLoads(rows[listing_id].json))), f)
                         ELSE ExitConnection(c.st, Raise("JSONDecodeError"), f)
                    ELSE ExitConnection(c.st, Return(NoVal), f)

\* the ids of a table in the order a scan without ORDER BY visits them (the
\* integer primary key is the rowid)
RECURSIVE ScanOrder(_)
ScanOrder(ids) ==
    IF ids = {} THEN <<>>
    ELSE LET least == CHOOSE i \in ids : \A j \in ids : i <= j
         IN <<least>> \o ScanOrder(ids \ {least})

RECURSIVE DecodeRows(_, _)
RECURSIVE DecodeRowsAborting(_, _)

\* a loop that stops at the first row whose text does not decode
DecodeRowsAborting(rows, order) ==
    IF order = <<>> THEN <<>>
    ELSE LET text == rows[Head(order)].json
         IN IF JsonValid(text)
            THEN <<JsonLoads(text)>> \o DecodeRowsAborting(rows, Tail(order))
            ELSE <<>>

\* the loop of get_all_listings over the fetched rows: json.loads of each,
\* a row whose text does not decode is skipped
DecodeRows(rows, order) ==
    IF order = <<>> THEN <<>>
    ELSE LET text == rows[Head(order)].json
         IN (IF JsonValid(text) THEN <<JsonLoads(text)>> ELSE <<>>)
                \o DecodeRows(rows, Tail(order))

\* get_all_listings: SELECT json FROM main, then the decoding loop
GetAllListings(st, f) ==
    LET c == GetConnectionRaw(st, f)
    IN IF ~c.ok THEN [st |-> c.st, out |-> Raise("sqlite3.Error")]
       ELSE IF StatementFails(c.st, f)
            THEN ExitConnection(c.st, Raise("sqlite3.Error"), f)
            ELSE LET rows == View(c.st).rows
                 IN ExitConnection(c.st,
                        Return(ListVal(DecodeRows(rows, ScanOrder(DOMAIN rows)))), f)

\* get_listing_count: SELECT COUNT(*)
GetListingCount(st, f) ==
    LET c == GetConnectionRaw(st, f)
    IN IF ~c.ok THEN [st |-> c.st, out |-> Raise("sqlite3.Error")]
       ELSE IF StatementFails(c.st, f)
            THEN ExitConnection(c.st, Raise("sqlite3.Error"), f)
            ELSE ExitConnection(c.st,
                     Return(IntVal(Cardinality(DOMAIN View(c.st).rows))), f)

\* delete_listing that tests rowcount >= 0
DeleteListingAlwaysTrue(st, listing_id, f) ==
    LET c == GetConnectionRaw(st, f)
    IN IF ~c.ok THEN [st |-> c.st, out |-> Raise("sqlite3.Error")]
       ELSE IF StatementFails(c.st, f)
            THEN ExitConnection(c.st, Raise("sqlite3.Error"), f)
            ELSE ExitConnection(Written(c.st, Remove(View(c.st).rows, listing_id)),
                                Return(BoolVal(TRUE)), f)

\* delete_listing: DELETE WHERE id = ?, true when a row was removed
DeleteListing(st, listing_id, f) ==
    LET c == GetConnectionRaw(st, f)
    IN IF ~c.ok THEN [st |-> c.st, out |-> Raise("sqlite3.Error")]
       ELSE IF StatementFails(c.st, f)
            THEN ExitConnection(c.st, Raise("sqlite3.Error"), f)
            ELSE LET rows == View(c.st).rows
                     deleted == listing_id \in DOMAIN rows
                 IN ExitConnection(Written(c.st, Remove(rows, listing_id)),
                                   Return(BoolVal(deleted)), f)

\* listing_exists: SELECT 1 WHERE id = ? LIMIT 1
ListingExists(st, listing_id, f) ==
    LET c == GetConnectionRaw(st, f)
    IN IF ~c.ok THEN [st |-> c.st, out |-> Raise("sqlite3.Error")]
       ELSE IF StatementFails(c.st, f)
            THEN ExitConnection(c.st, Raise("sqlite3.Error"), f)
            ELSE ExitConnection(c.st,
                     Return(BoolVal(listing_id \in DOMAIN View(c.st).rows)), f)

\* ------------------------------------------------------------------------
\* URL parser (url_utils.py); a link is a sequence of tokens: the scheme and
\* host, "/rooms/", one token per digit, "?", "&", "check_in=", a date, ...
\* ------------------------------------------------------------------------
AirbnbHosts == {"https://www.airbnb.com", "https://www.airbnb.com.sg"}

\* datetime.fromisoformat on the date strings the links use: the day of
\* January 2024, the hour of the day, and whether an offset is given
IsoDates ==
    [d \in {"2024-01-15", "2024-01-17", "2024-01-15T18:00:00", "2024-01-16T09:00:00",
            "2024-01-17T00:00:00+00:00"} |->
        CASE d = "2024-01-15" -> [day |-> 15, hour |-> 0, aware |-> FALSE]
          [] d = "2024-01-17" -> [day |-> 17, hour |-> 0, aware |-> FALSE]
          [] d = "2024-01-15T18:00:00" -> [day |-> 15, hour |-> 18, aware |-> FALSE]
          [] d = "2024-01-16T09:00:00" -> [day |-> 16, hour |-> 9, aware |-> FALSE]
          [] OTHER -> [day |-> 17, hour |-> 0, aware |-> TRUE]]

\* the longest run of digits of str that starts at position i
RECURSIVE DigitRun(_, _)
DigitRun(str, i) ==
    IF i <= Len(str) /\ IsDigit(str[i]) THEN <<str[i]>> \o DigitRun(str, i + 1) ELSE <<>>

\* the longest run of tokens other than "&" that starts at position i
RECURSIVE ValueRun(_, _)
ValueRun(str, i) ==
    IF i <= Len(str) /\ str[i] # "&" THEN <<str[i]>> \o ValueRun(str, i + 1) ELSE <<>>

First(positions) == CHOOSE i \in positions : \A j \in positions : i <= j

Hours(date) == 24 * date.day + date.hour

\* extract_from_url: RoomIdMatches is re.search(AIRBNB_ROOM_ID_PATTERN, link),
\* DigitParamAt the positions where name=(\d+) matches, ValueParamAt those
\* where name=([^&]+) matches, IsoParses whether fromisoformat accepts the
\* value, UrlFailure the exception raised
ExtractFromUrl(link) ==
    LET RoomIdMatches ==
            /\ Len(link) >= 3
            /\ link[1] \in AirbnbHosts
            /\ link[2] = "/rooms/"
            /\ IsDigit(link[3])
        DigitParamAt(name) ==
            {i \in 1..Len(link) :
                link[i] = name /\ i < Len(link) /\ IsDigit(link[i + 1])}
        ValueParamAt(name) ==
            {i \in 1..Len(link) :
                link[i] = name /\ i < Len(link) /\ link[i + 1] # "&"}
        IsoParses(value) == Len(value) = 1 /\ value[1] \in DOMAIN IsoDates
        UrlFailure(e) ==
            [ok |-> FALSE, err |-> e, listing_id |-> 0, stay |-> 0,
             check_in |-> <<>>, check_out |-> <<>>, adults |-> 0]
    IN
    IF ~RoomIdMatches THEN UrlFailure("ValueError")
    ELSE LET listing_id == ParseNat(DigitRun(link, 3))
             adultsAt == DigitParamAt("adults=")
             adults_count == IF adultsAt # {}
                             THEN ParseNat(DigitRun(link, First(adultsAt) + 1)) ELSE 1
             inAt == ValueParamAt("check_in=")
             outAt == ValueParamAt("check_out=")
         IN IF inAt = {} \/ outAt = {} THEN UrlFailure("ValueError")
            ELSE LET check_in_str == ValueRun(link, First(inAt) + 1)
                     check_out_str == ValueRun(link, First(outAt) + 1)
                 IN IF ~IsoParses(check_in_str) \/ ~IsoParses(check_out_str)
                    THEN UrlFailure("ValueError")
                    ELSE LET check_in == IsoDates[check_in_str[1]]
                             check_out == IsoDates[check_out_str[1]]
                         IN IF check_in.aware # check_out.aware
                            THEN UrlFailure("TypeError")
                            ELSE IF Hours(check_out) <= Hours(check_in)
                                 THEN UrlFailure("ValueError")
                                 ELSE [ok |-> TRUE, err |-> "",
                                       listing_id |-> listing_id,
                                       stay |-> (Hours(check_out) - Hours(check_in)) \div 24,
                                       check_in |-> check_in_str,
                                       check_out |-> check_out_str,
                                       adults |-> adults_count]

\* validate_airbnb_url: True when extract_from_url returns, False when it
\* raises ValueError; any other exception is not caught
ValidateAirbnbUrl(url) ==
    LET u == ExtractFromUrl(url)
    IN IF u.ok THEN Return(BoolVal(TRUE))
       ELSE IF u.err = "ValueError" THEN Return(BoolVal(FALSE))
            ELSE Raise(u.err)

\* ------------------------------------------------------------------------
\* Normalisation (data_processor.py): the price, the argument checks and the
\* identity fields of the record; a payload is [isEmpty, price, person_capacity]
\* ------------------------------------------------------------------------
IsPriceChar(c) == IsDigit(c) \/ c = ","

RECURSIVE PriceRun(_, _)
PriceRun(str, i) ==
    IF i <= Len(str) /\ IsPriceChar(str[i]) THEN <<str[i]>> \o PriceRun(str, i + 1) ELSE <<>>

RECURSIVE WithoutCommas(_)
WithoutCommas(str) ==
    IF str = <<>> THEN <<>>
    ELSE IF Head(str) = "," THEN WithoutCommas(Tail(str))
         ELSE <<Head(str)>> \o WithoutCommas(Tail(str))

\* _extract_numeric_price: 0.0 for a value that is falsy; else the first
\* match of [\d,]+\.?\d* in str(value), commas removed, as a float (in
\* hundredths); 0.0 when nothing matches or float() fails
ExtractNumericPrice(value) ==
    LET price_str == Str(value)
        starts == {i \in 1..Len(price_str) : IsPriceChar(price_str[i])}
    IN IF ~Truthy(value) \/ starts = {} THEN 0
       ELSE LET i == First(starts)
                whole == PriceRun(price_str, i)
                j == i + Len(whole)
                hasDot == j <= Len(price_str) /\ price_str[j] = "."
                frac == IF hasDot THEN DigitRun(price_str, j + 1) ELSE <<>>
                digits == WithoutCommas(whole)
            IN IF digits = <<>> /\ frac = <<>> THEN 0
               ELSE 100 * (IF digits = <<>> THEN 0 ELSE ParseNat(digits))
                        + (IF frac = <<>> THEN 0 ELSE ParseFrac(frac))

\* extract_price: data["price"]["main"] read with .get; shape tells whether
\* that mapping is there ("main"), a key on the way is missing ("absent": the
\* members default to "") or a value on the way is no mapping ("notdict":
\* AttributeError, caught, 0.0). A member that is no str, int or float counts
\* as ""; the discounted price when it is above zero, the regular price
\* otherwise
ExtractPrice(data) ==
    IF data.price.shape = "notdict" THEN 0
    ELSE LET Member(v) ==
                 IF data.price.shape = "main" /\ v.t \in {"str", "int", "float"}
                 THEN v ELSE PyStr(<<>>)
             Final(discounted_price_value, regular_price_value) ==
                 IF discounted_price_value > 0 THEN discounted_price_value
                 ELSE regular_price_value
         IN Final(ExtractNumericPrice(Member(data.price.discountedPrice)),
                  ExtractNumericPrice(Member(data.price.price)))

\* _clean_html_content: "" for an empty string, else "<br />" becomes a
\* newline and "&nbsp;" a blank
CleanHtmlContent(content) ==
    IF content = <<>> THEN <<>>
    ELSE [i \in DOMAIN content |->
             CASE content[i] = "<br />" -> "\n"
               [] content[i] = "&nbsp;" -> " "
               [] OTHER -> content[i]]

\* str.lower() on the words the payloads use
Lower(str) ==
    LET LowerTable ==
            [w \in {"Getting Around", "Neighbourhood Highlights", "Downtown",
                    "Checking in and out", "EN", "En"} |->
                CASE w = "Getting Around" -> "getting around"
                  [] w = "Neighbourhood Highlights" -> "neighbourhood highlights"
                  [] w = "Downtown" -> "downtown"
                  [] w = "Checking in and out" -> "checking in and out"
                  [] OTHER -> "en"]
    IN [i \in DOMAIN str |->
           IF str[i] \in DOMAIN LowerTable THEN LowerTable[str[i]] ELSE str[i]]

\* int(v): the number, truncated; ValueError for a string that is no
\* integer (an optional sign and digits, blanks around them ignored);
\* TypeError for None, a list or a dict
IntFailure(v) ==
    CASE v.t \in {"int", "float"} -> ""
      [] v.t = "str" -> IF IsNatLit(Unsigned(Strip(v.s))) THEN "" ELSE "ValueError"
      [] OTHER -> "TypeError"
IntValue(v) ==
    CASE v.t = "int" -> v.n
      [] v.t = "float" -> IF v.n >= 0 THEN v.n \div 100 ELSE -((-v.n) \div 100)
      [] OTHER -> Sign(Strip(v.s)) * ParseNat(Unsigned(Strip(v.s)))

\* round(sum / count, 2) on hundredths (ties to even)
RoundedMean(sum, count) ==
    LET q == sum \div count
        r == sum % count
    IN IF 2 * r > count \/ (2 * r = count /\ q % 2 = 1) THEN q + 1 ELSE q

\* the value of a rating entry when review_count is counted like any other
RatingOfAnyKey(key, value) ==
    LET lit == Strip(value.s)
        rating_value ==
            CASE value.t = "str" ->
                     IF IsNatLit(Unsigned(lit))
                     THEN 100 * Sign(lit) * ParseNat(Unsigned(lit))
                     ELSE IF IsFloatLit(Unsigned(lit))
                          THEN Sign(lit) * ParseFloat(Unsigned(lit)) ELSE -1
              [] value.t = "int" -> 100 * value.n
              [] value.t = "float" -> value.n
              [] OTHER -> -1
    IN IF 0 <= rating_value /\ rating_value <= 1000 THEN rating_value ELSE -1

\* the value of one rating entry in hundredths, or -1 when the loop of
\* calculate_average_rating skips it; float(str) accepts an optional sign and
\* digits with or without a fraction, blanks around them ignored
RatingOf(key, value) ==
    IF key = "review_count" THEN -1
    ELSE LET lit == Strip(value.s)
             FloatParses == IsNatLit(Unsigned(lit)) \/ IsFloatLit(Unsigned(lit))
             FloatOf ==
                 IF IsNatLit(Unsigned(lit))
                 THEN 100 * Sign(lit) * ParseNat(Unsigned(lit))
                 ELSE Sign(lit) * ParseFloat(Unsigned(lit))
             rating_value ==
                 CASE value.t = "str" ->
                          IF lit # <<>> /\ FloatParses THEN FloatOf ELSE -1
                   [] value.t = "int" -> 100 * value.n
                   [] value.t = "float" -> value.n
                   [] OTHER -> -1
         IN IF 0 <= rating_value /\ rating_value <= 1000 THEN rating_value ELSE -1

RECURSIVE SumRatings(_, _)
SumRatings(d, keys) ==
    IF keys = <<>> THEN [sum |-> 0, count |-> 0]
    ELSE LET rest == SumRatings(d, Tail(keys))
             r == RatingOf(Head(keys), d[Head(keys)])
         IN IF r < 0 THEN rest ELSE [sum |-> rest.sum + r, count |-> rest.count + 1]

\* calculate_average_rating: 0.0 for empty data, the mean of the numeric
\* entries in 0..10 except review_count; .items() of a value that is no
\* dict raises AttributeError
CalculateAverageRating(rating_data) ==
    IF ~Truthy(rating_data) THEN Return(PyFloat(0))
    ELSE IF rating_data.t # "dict" THEN Raise("AttributeError")
         ELSE LET ratings == SumRatings(rating_data.d, SetToSeq(DOMAIN rating_data.d))
              IN IF ratings.count = 0 THEN Return(PyFloat(0))
                 ELSE Return(PyFloat(RoundedMean(ratings.sum, ratings.count)))

\* the inner loop of extract_amenities over entry["values"], inside the try:
\* ok is false when it raised KeyError or TypeError
RECURSIVE AmenityValues(_)
AmenityValues(items) ==
    IF items = <<>> THEN [ok |-> TRUE, list |-> <<>>]
    ELSE LET item == Head(items)
         IN IF ~CanContain(item) THEN [ok |-> FALSE, list |-> <<>>]
            ELSE IF ~Contains(item, "title") THEN AmenityValues(Tail(items))
                 ELSE IF ~CanIndex(item) THEN [ok |-> FALSE, list |-> <<>>]
                      ELSE LET title == Strip(Str(item.d["title"]))
                               result == IF "subtitle" \in DOMAIN item.d
                                         THEN title \o <<": (">>
                                                  \o Strip(Str(item.d["subtitle"])) \o <<")">>
                                         ELSE title
                               rest == AmenityValues(Tail(items))
                           IN IF ~rest.ok THEN rest
                              ELSE [ok |-> TRUE,
                                    list |-> (IF result # <<>> THEN <<PyStr(result)>> ELSE <<>>)
                                                 \o rest.list]

RECURSIVE AmenitiesLoop(_, _)
AmenitiesLoop(items, amenities) ==
    IF items = <<>> THEN Return(PyDict(amenities))
    ELSE LET entry == Head(items)
         IN IF ~Truthy(entry) THEN AmenitiesLoop(Tail(items), amenities)
            ELSE IF ~CanContain(entry) THEN Raise("TypeError")
            ELSE IF ~Contains(entry, "title") \/ ~Contains(entry, "values")
                 THEN AmenitiesLoop(Tail(items), amenities)
            ELSE IF ~CanIndex(entry) THEN Raise("TypeError")
            ELSE LET amenity_title == Strip(Str(entry.d["title"]))
                     values == entry.d["values"]
                     amenity_values == IF CanIterate(values)
                                       THEN AmenityValues(Elements(values))
                                       ELSE [ok |-> FALSE, list |-> <<>>]
                 IN IF amenity_title = <<>> \/ ~amenity_values.ok \/ amenity_values.list = <<>>
                    THEN AmenitiesLoop(Tail(items), amenities)
                    ELSE AmenitiesLoop(Tail(items),
                             (amenity_title :> PyList(amenity_values.list)) @@ amenities)

\* extract_amenities: {} for empty data; an entry that is a number makes
\* the membership test raise TypeError outside the try
ExtractAmenities(amenities_data) ==
    IF ~Truthy(amenities_data) THEN Return(PyDict(<<>>))
    ELSE IF ~CanIterate(amenities_data) THEN Raise("TypeError")
         ELSE AmenitiesLoop(Elements(amenities_data), <<>>)

RECURSIVE LocationLoop(_, _, _)
LocationLoop(items, location, getting_around) ==
    IF items = <<>>
    THEN Return([location |-> location, getting_around |-> getting_around])
    ELSE LET description == Head(items)
         IN IF ~Truthy(description) THEN LocationLoop(Tail(items), location, getting_around)
            ELSE IF ~CanContain(description) THEN Raise("TypeError")
            ELSE IF ~Contains(description, "title") \/ ~Contains(description, "content")
                 THEN LocationLoop(Tail(items), location, getting_around)
            ELSE IF ~CanIndex(description) THEN Raise("TypeError")
            ELSE LET title == Strip(Lower(Str(description.d["title"])))
                     content == CleanHtmlContent(Str(description.d["content"]))
                 IN IF title = <<"getting around">>
                    THEN LocationLoop(Tail(items), location, content)
                    ELSE IF title = <<"neighbourhood highlights">>
                         THEN LocationLoop(Tail(items), content, getting_around)
                         ELSE IF location = <<>> /\ content # <<>>
                              THEN LocationLoop(Tail(items), content, getting_around)
                              ELSE LocationLoop(Tail(items), location, getting_around)

\* extract_location_info: (location, getting_around)
ExtractLocationInfo(location_descriptions) ==
    IF ~Truthy(location_descriptions)
    THEN Return([location |-> <<>>, getting_around |-> <<>>])
    ELSE IF ~CanIterate(location_descriptions) THEN Raise("TypeError")
         ELSE LocationLoop(Elements(location_descriptions), <<>>, <<>>)

RECURSIVE HighlightsLoop(_)
HighlightsLoop(items) ==
    IF items = <<>> THEN Return(PyList(<<>>))
    ELSE LET highlight == Head(items)
             rest == HighlightsLoop(Tail(items))
         IN IF ~Truthy(highlight) THEN rest
            ELSE IF ~CanContain(highlight) THEN Raise("TypeError")
            ELSE IF ~Contains(highlight, "title") THEN rest
            ELSE IF ~CanIndex(highlight) THEN Raise("TypeError")
            ELSE LET title == Strip(Str(highlight.d["title"]))
                 IN IF rest.kind = "raise" \/ title = <<>> THEN rest
                    ELSE Return(PyList(<<PyStr(title)>> \o rest.val.items))

\* extract_highlights: the titles of the highlight entries
ExtractHighlights(highlights_data) ==
    IF ~Truthy(highlights_data) THEN Return(PyList(<<>>))
    ELSE IF ~CanIterate(highlights_data) THEN Raise("TypeError")
         ELSE HighlightsLoop(Elements(highlights_data))

RECURSIVE ReviewsLoop(_, _)
ReviewsLoop(items, recent_reviews) ==
    IF items = <<>> THEN Return(PyList(recent_reviews))
    ELSE LET review == Head(items)
         IN IF ~Truthy(review) THEN ReviewsLoop(Tail(items), recent_reviews)
            ELSE IF ~CanContain(review) THEN Raise("TypeError")
            ELSE IF ~Contains(review, "comments") \/ ~Contains(review, "rating")
                 THEN ReviewsLoop(Tail(items), recent_reviews)
            ELSE IF review.t # "dict" THEN Raise("AttributeError")
            ELSE LET language == Get(review.d, "language", PyStr(<<>>))
                 IN IF language.t # "str" THEN Raise("AttributeError")
                    ELSE IF Lower(language.s) # <<"en">> \/ Len(recent_reviews) >= 5
                         THEN ReviewsLoop(Tail(items), recent_reviews)
                    ELSE LET comment == Strip(Str(review.d["comments"]))
                             rating == review.d["rating"]
                             date == Strip(Str(Get(review.d, "localizedDate", PyStr(<<>>))))
                         IN IF comment = <<>> \/ IntFailure(rating) # ""
                            THEN ReviewsLoop(Tail(items), recent_reviews)
                            ELSE ReviewsLoop(Tail(items),
                                     Append(recent_reviews,
                                            [comment |-> comment, rating |-> IntValue(rating),
                                             date |-> date]))

\* the summary when only the first five reviews of the list are looked at
ExtractReviewsSummaryFirstFive(reviews_data) ==
    IF ~Truthy(reviews_data) THEN Return(PyList(<<>>))
    ELSE IF ~CanIterate(reviews_data) THEN Raise("TypeError")
         ELSE LET items == Elements(reviews_data)
              IN ReviewsLoop([i \in {j \in 1..5 : j <= Len(items)} |-> items[i]], <<>>)

\* extract_reviews_summary: at most five English reviews with a comment and
\* an integer rating
ExtractReviewsSummary(reviews_data) ==
    IF ~Truthy(reviews_data) THEN Return(PyList(<<>>))
    ELSE IF ~CanIterate(reviews_data) THEN Raise("TypeError")
         ELSE ReviewsLoop(Elements(reviews_data), <<>>)

\* str.split("\n"), each piece stripped, the empty ones dropped
RECURSIVE SplitLines(_, _)
SplitLines(str, line) ==
    IF str = <<>> THEN IF Strip(line) = <<>> THEN <<>> ELSE <<Strip(line)>>
    ELSE IF Head(str) = "\n"
         THEN (IF Strip(line) = <<>> THEN <<>> ELSE <<Strip(line)>>)
                  \o SplitLines(Tail(str), <<>>)
         ELSE SplitLines(Tail(str), Append(line, Head(str)))

RECURSIVE RuleTitles(_)
RuleTitles(items) ==
    IF items = <<>> THEN <<>>
    ELSE LET item == Head(items)
         IN (IF Truthy(item) /\ item.t = "dict" /\ "title" \in DOMAIN item.d
                /\ Strip(Str(item.d["title"])) # <<>>
             THEN <<Strip(Str(item.d["title"]))>> ELSE <<>>) \o RuleTitles(Tail(items))

RECURSIVE GeneralRulesLoop(_, _)
GeneralRulesLoop(groups, rules) ==
    IF groups = <<>> THEN rules
    ELSE LET rule_group == Head(groups)
         IN IF ~Truthy(rule_group) \/ rule_group.t # "dict"
            THEN GeneralRulesLoop(Tail(groups), rules)
            ELSE IF "title" \notin DOMAIN rule_group.d \/ "values" \notin DOMAIN rule_group.d
                    \/ rule_group.d["values"].t # "list"
                 THEN GeneralRulesLoop(Tail(groups), rules)
                 ELSE LET title == Strip(Str(rule_group.d["title"]))
                          rule_values == RuleTitles(rule_group.d["values"].items)
                      IN IF rule_values = <<>> THEN GeneralRulesLoop(Tail(groups), rules)
                         ELSE IF Lower(title) = <<"checking in and out">>
                              THEN GeneralRulesLoop(Tail(groups),
                                       [rules EXCEPT !.check_in_out = rule_values])
                              ELSE GeneralRulesLoop(Tail(groups),
                                       [rules EXCEPT !.general_rules =
                                            Append(@, [category |-> title,
                                                       rules |-> rule_values])])

NoHouseRules == [additional_rules |-> <<>>, general_rules |-> <<>>, check_in_out |-> <<>>]

\* extract_house_rules: .get of a value that is no dict raises AttributeError
ExtractHouseRules(house_rules_data) ==
    IF ~Truthy(house_rules_data) THEN Return(NoHouseRules)
    ELSE IF house_rules_data.t # "dict" THEN Raise("AttributeError")
         ELSE LET additional_rules_raw == Get(house_rules_data.d, "additional", PyStr(<<>>))
                  rules == [NoHouseRules EXCEPT !.additional_rules =
                               IF Truthy(additional_rules_raw)
                               THEN SplitLines(Str(additional_rules_raw), <<>>) ELSE <<>>]
                  general_rules == Get(house_rules_data.d, "general", PyList(<<>>))
              IN IF general_rules.t # "list" THEN Return(rules)
                 ELSE Return(GeneralRulesLoop(general_rules.items, rules))

\* the loop of process_listing_data over data["images"]
RECURSIVE ImageUrls(_)
ImageUrls(items) ==
    IF items = <<>> THEN <<>>
    ELSE LET img == Head(items)
         IN (IF Truthy(img) /\ img.t = "dict" /\ "url" \in DOMAIN img.d
                /\ Strip(Str(img.d["url"])) # <<>>
             THEN <<Strip(Str(img.d["url"]))>> ELSE <<>>) \o ImageUrls(Tail(items))

\* what process_listing_data gives back: the record (info holds the identity
\* fields, fields the extracted ones) or the exception, and whether
\* _write_debug_json was called
ProcessFailure(e, debug) ==
    [ok |-> FALSE, err |-> e, info |-> EmptyDict, fields |-> <<>>, debug |-> debug]

\* extract_property_details: room type, the two flags and the layout items
ExtractPropertyDetails(data) ==
    LET sub_description == Get(data, "sub_description", PyDict(<<>>))
        layout_items == IF sub_description.t = "dict"
                        THEN Get(sub_description.d, "items", PyList(<<>>))
                        ELSE PyList(<<>>)
    IN [room_type |-> Strip(Str(Get(data, "room_type", PyStr(<<>>)))),
        is_guest_favorite |-> Truthy(Get(data, "is_guest_favorite", PyInt(0))),
        is_super_host |-> Truthy(Get(data, "is_super_host", PyInt(0))),
        layout |-> IF layout_items.t = "list" THEN layout_items.items ELSE <<>>]

\* process_listing_data from _write_debug_json on: the extractors in the
\* order of the code; the first exception leaves the try block
ExtractAll(data, listing_id, link, stay_length) ==
    LET Capacity(person_capacity) ==
            IF IntFailure(person_capacity) = ""
            THEN Return(PyInt(IntValue(person_capacity)))
            ELSE Raise(IntFailure(person_capacity))
        Record(total_cost, coordinates, capacity, average_rating, extracted_rules,
               amenities, images_data, location, highlights, reviews_summary) ==
            LET outcomes == <<capacity, average_rating, extracted_rules, amenities,
                              location, highlights, reviews_summary>>
                failed == {i \in DOMAIN outcomes : outcomes[i].kind = "raise"}
            IN IF failed # {} THEN ProcessFailure(outcomes[First(failed)].err, TRUE)
               ELSE [ok |-> TRUE, err |-> "", debug |-> TRUE,
                     info |->
                        [id |-> PyInt(listing_id), url |-> PyStr(Strip(link)),
                         duration |-> PyInt(stay_length), cost |-> PyFloat(total_cost)],
                     fields |->
                        [coordinates |-> IF coordinates.t = "dict"
                                         THEN JsonDumps(coordinates.d)
                                         ELSE JsonDumps(<<>>),
                         super_host |-> Truthy(Get(data, "is_super_host", PyInt(0))),
                         capacity |-> capacity.val,
                         average_rating |-> average_rating.val,
                         check_in_out |-> extracted_rules.val.check_in_out,
                         amenities |-> amenities.val,
                         images |-> IF images_data.t = "list"
                                    THEN ImageUrls(images_data.items) ELSE <<>>,
                         location |-> location.val.location,
                         getting_around |-> location.val.getting_around,
                         highlights |-> highlights.val,
                         reviews_summary |-> reviews_summary.val,
                         house_rules |-> extracted_rules.val,
                         property_details |-> ExtractPropertyDetails(data)]]
    IN Record(ExtractPrice(data),
              Get(data, "coordinates", PyDict(<<>>)),
              Capacity(Get(data, "person_capacity", PyInt(0))),
              CalculateAverageRating(Get(data, "rating", PyDict(<<>>))),
              ExtractHouseRules(Get(data, "house_rules", PyDict(<<>>))),
              ExtractAmenities(Get(data, "amenities", PyList(<<>>))),
              Get(data, "images", PyList(<<>>)),
              ExtractLocationInfo(Get(data, "location_descriptions", PyList(<<>>))),
              ExtractHighlights(Get(data, "highlights", PyList(<<>>))),
              ExtractReviewsSummary(Get(data, "reviews", PyList(<<>>))))

\* the argument checks without the one on stay_length
InvalidInputNoStay(data, listing_id, link, stay_length) ==
    data.isEmpty \/ listing_id <= 0 \/ Strip(link) = <<>>

\* the argument checks of process_listing_data
InvalidInput(data, listing_id, link, stay_length) ==
    data.isEmpty \/ listing_id <= 0 \/ Strip(link) = <<>> \/ stay_length <= 0

\* process_listing_data without its empty-payload check
ProcessListingDataAnyPayload(data, listing_id, link, stay_length) ==
    IF listing_id <= 0 \/ Strip(link) = <<>> \/ stay_length <= 0
    THEN ProcessFailure("ValueError", FALSE)
    ELSE ExtractAll(data, listing_id, link, stay_length)

\* process_listing_data without its check of listing_id
ProcessListingDataAnyId(data, listing_id, link, stay_length) ==
    IF data.isEmpty \/ Strip(link) = <<>> \/ stay_length <= 0
    THEN ProcessFailure("ValueError", FALSE)
    ELSE ExtractAll(data, listing_id, link, stay_length)

\* process_listing_data: the four argument checks, then the debug file and
\* the extractors
ProcessListingData(data, listing_id, link, stay_length) ==
    IF InvalidInput(data, listing_id, link, stay_length)
    THEN ProcessFailure("ValueError", FALSE)
    ELSE ExtractAll(data, listing_id, link, stay_length)

\* validate_listing_data without the sign check on cost
ValidateListingDataAnyCost(listing_data) ==
    /\ listing_data # EmptyDict
    /\ {"id", "url", "cost"} \subseteq DOMAIN listing_data
    /\ listing_data["id"].t = "int" /\ listing_data["id"].n > 0
    /\ listing_data["url"].t = "str" /\ Strip(listing_data["url"].s) # <<>>
    /\ listing_data["cost"].t \in {"int", "float"}

\* validate_listing_data: id, url and cost present, id a positive int, url a
\* non-blank string, cost a number that is not negative
ValidateListingData(listing_data) ==
    /\ listing_data # EmptyDict
    /\ {"id", "url", "cost"} \subseteq DOMAIN listing_data
    /\ listing_data["id"].t = "int" /\ listing_data["id"].n > 0
    /\ listing_data["url"].t = "str" /\ Strip(listing_data["url"].s) # <<>>
    /\ listing_data["cost"].t \in {"int", "float"} /\ listing_data["cost"].n >= 0

\* ------------------------------------------------------------------------
\* The public write paths (scraper.py, data_retrieval.py); each one works
\* through a DatabaseManager of its own, closed when the with block is left
\* ------------------------------------------------------------------------
EmptyPayload ==
    [isEmpty |-> TRUE,
     price |-> [shape |-> "absent", discountedPrice |-> PyNone, price |-> PyNone]]

\* scrape_listing_data: what pyairbnb.get_details returns, {} when it raises
ScrapeListingData(details) ==
    IF details.raises THEN EmptyPayload ELSE details.data

PathOutcome(kind, err, b) == [kind |-> kind, err |-> err, val |-> BoolVal(b)]

\* add_listing, first try block: parse the link, scrape, normalise, validate
AddListingPrepare(link, details) ==
    LET Validated(p) ==
            IF ~p.ok THEN [ok |-> FALSE, err |-> p.err, info |-> EmptyDict]
            ELSE IF ~ValidateListingData(p.info)
                 THEN [ok |-> FALSE, err |-> "ValueError", info |-> EmptyDict]
                 ELSE [ok |-> TRUE, err |-> "", info |-> p.info]
        Scraped(u) ==
            IF ~u.ok THEN [ok |-> FALSE, err |-> u.err, info |-> EmptyDict]
            ELSE Validated(ProcessListingData(ScrapeListingData(details),
                                              u.listing_id, link, u.stay))
    IN Scraped(ExtractFromUrl(link))

\* add_listing, second try block: create_tables and add_entry on a new
\* manager, closed on the way out; a failure is wrapped in Exception
AddListingSave(file, processed_info, f1, f2) ==
    LET t == CreateTables(NewManager(file), f1)
        a == AddEntry(t.st, processed_info, f2)
    IN IF t.out.kind = "raise"
       THEN [file |-> Close(t.st).file, out |-> PathOutcome("raise", "Exception", TRUE)]
       ELSE IF a.out.kind = "raise"
            THEN [file |-> Close(a.st).file, out |-> PathOutcome("raise", "Exception", TRUE)]
            ELSE [file |-> Close(a.st).file, out |-> PathOutcome("return", "", TRUE)]

\* add_listing; val.b of the outcome tells whether a manager was made
AddListing(file, link, details, f1, f2) ==
    LET Saved(p) ==
            IF ~p.ok THEN [file |-> file, out |-> PathOutcome("raise", p.err, FALSE)]
            ELSE AddListingSave(file, p.info, f1, f2)
    IN Saved(AddListingPrepare(link, details))

WithCost(listing_data, new_cost) ==
    [k \in (DOMAIN listing_data) \cup {"cost"} |->
        IF k = "cost" THEN PyInt(new_cost) ELSE listing_data[k]]

\* update_listing_costs that writes back only the id and the new cost
UpdateListingCostsPartial(file, listing_id, new_cost, f1, f2) ==
    LET g == GetListing(NewManager(file), listing_id, f1)
    IN IF g.out.kind = "raise" \/ g.out.val.t = "none"
       THEN [file |-> Close(g.st).file, out |-> Return(BoolVal(FALSE))]
       ELSE LET a == AddEntry(g.st, [id |-> g.out.val.rec["id"], cost |-> PyInt(new_cost)], f2)
            IN [file |-> Close(a.st).file, out |-> Return(BoolVal(a.out.kind = "return"))]

\* update_listing_costs: get_listing, set cost, add_entry; every exception
\* is turned into False
UpdateListingCosts(file, listing_id, new_cost, f1, f2) ==
    LET g == GetListing(NewManager(file), listing_id, f1)
    IN IF g.out.kind = "raise"
       THEN [file |-> Close(g.st).file, out |-> Return(BoolVal(FALSE))]
       ELSE IF g.out.val.t = "none"
            THEN [file |-> Close(g.st).file, out |-> Return(BoolVal(FALSE))]
            ELSE LET a == AddEntry(g.st, WithCost(g.out.val.rec, new_cost), f2)
                 IN IF a.out.kind = "raise"
                    THEN [file |-> Close(a.st).file, out |-> Return(BoolVal(FALSE))]
                    ELSE [file |-> Close(a.st).file, out |-> Return(BoolVal(TRUE))]

\* data_retrieval.delete_listing: delete on a new manager, False on any error
DeleteListingPath(file, listing_id, f) ==
    LET d == DeleteListing(NewManager(file), listing_id, f)
    IN IF d.out.kind = "raise"
       THEN [file |-> Close(d.st).file, out |-> Return(BoolVal(FALSE))]
       ELSE [file |-> Close(d.st).file, out |-> d.out]

\* ------------------------------------------------------------------------
\* Reading fields of a record (data_retrieval.py, constants.py)
\* ------------------------------------------------------------------------
CHECKBOX_FIELD_MAPPING ==
    [label \in {"ID", "Rating", "URL", "Duration", "Location", "Coordinates",
                "Getting Around", "Check In/ Out Timing", "Layout", "Capacity", "Cost",
                "Super Host", "Amenities", "Highlights", "Reviews Summary", "House Rules",
                "Property Details", "Notes", "Images", "Cover"} |->
        CASE label = "ID" -> "id"
          [] label = "Rating" -> "average_rating"
          [] label = "URL" -> "url"
          [] label = "Duration" -> "duration"
          [] label = "Location" -> "location"
          [] label = "Coordinates" -> "coordinates"
          [] label = "Getting Around" -> "getting_around"
          [] label = "Check In/ Out Timing" -> "check_in_out"
          [] label = "Layout" -> "layout"
          [] label = "Capacity" -> "capacity"
          [] label = "Cost" -> "cost"
          [] label = "Super Host" -> "super_host"
          [] label = "Amenities" -> "amenities"
          [] label = "Highlights" -> "highlights"
          [] label = "Reviews Summary" -> "reviews_summary"
          [] label = "House Rules" -> "house_rules"
          [] label = "Property Details" -> "property_details"
          [] label = "Notes" -> "notes"
          [] label = "Images" -> "images"
          [] label = "Cover" -> "cover"]

\* listing["images"][0] if listing["images"] else ""
CoverOf(listing) ==
    IF "images" \notin DOMAIN listing THEN Raise("KeyError")
    ELSE LET images == listing["images"]
         IN IF ~Truthy(images) THEN Return(PyStr(<<>>))
            ELSE CASE images.t = "list" -> Return(images.items[1])
                   [] images.t = "str" -> Return(PyStr(<<images.s[1]>>))
                   [] images.t = "dict" -> Raise("KeyError")
                   [] OTHER -> Raise("TypeError")

\* extract_field_from_listing that works the cost out of the daily cost,
\* the duration and the other costs
ExtractFieldFromListingComputed(field_name, listing) ==
    IF field_name \notin DOMAIN CHECKBOX_FIELD_MAPPING THEN Raise("KeyError")
    ELSE LET field_key == CHECKBOX_FIELD_MAPPING[field_name]
         IN IF field_key = "cost"
            THEN IF {"daily_cost", "misc_cost", "duration"} \subseteq DOMAIN listing
                 THEN Return(PyInt(listing["daily_cost"].n * listing["duration"].n
                                       + listing["misc_cost"].n))
                 ELSE Return(Get(listing, "cost", PyInt(0)))
            ELSE IF field_key = "cover" THEN CoverOf(listing)
                 ELSE Return(Get(listing, field_key, PyStr(<<>>)))

\* extract_field_from_listing
ExtractFieldFromListing(field_name, listing) ==
    IF field_name \notin DOMAIN CHECKBOX_FIELD_MAPPING THEN Raise("KeyError")
    ELSE LET field_key == CHECKBOX_FIELD_MAPPING[field_name]
         IN IF field_key = "cost" THEN Return(Get(listing, "cost", PyInt(0)))
            ELSE IF field_key = "cover" THEN CoverOf(listing)
                 ELSE Return(Get(listing, field_key, PyStr(<<>>)))

\* ------------------------------------------------------------------------
\* One long-lived DatabaseManager and its callers
\* ------------------------------------------------------------------------
VARIABLES
    db,      \* the database file and the manager's connection (file, conn, txn, work)
    ret,     \* the call made last: operation, target id, argument, outcome
    faults,  \* storage faults injected so far
    held,    \* history: per id, the record of the last add_entry that succeeded,
             \* forgotten when a later put or delete targets the id
    lastOk,  \* history: per id, the last operation on it that returned
    pre      \* history: db as the call made last found it

vars == <<db, ret, faults, held, lastOk, pre>>

PlainUrl(id) == PyStr(<<"https://airbnb.com", "/rooms/", DigitChar[id + 1]>>)

\* records the callers of add_entry pass: a record as the pipeline builds it
\* (float cost), the shape of the unit tests, and records without id
RecordsOf(id) ==
    { [id |-> PyInt(id), url |-> PlainUrl(id), duration |-> PyInt(4), cost |-> PyFloat(1250)],
      [id |-> PyInt(id), url |-> PlainUrl(id), duration |-> PyInt(4),
       daily_cost |-> PyInt(100), misc_cost |-> PyInt(50)] }

RecordInputs ==
    (UNION {RecordsOf(id) : id \in Ids})
        \cup { [url |-> PlainUrl(1), duration |-> PyInt(4),
                daily_cost |-> PyInt(100), misc_cost |-> PyInt(50)],
               [notes |-> PyStr(<<"quiet">>)] }

NotHeld == [set |-> FALSE, rec |-> EmptyDict]

Call(op, id, arg, f, out) ==
    [op |-> op, id |-> id, arg |-> arg, fault |-> f # "none",
     kind |-> out.kind, err |-> out.err, val |-> out.val]

Init ==
    /\ db = NewManager(EmptyFile)
    /\ ret = Call("init", 0, 0, "none", Return(NoVal))
    /\ faults = 0
    /\ held = [id \in Ids |-> NotHeld]
    /\ lastOk = [id \in Ids |-> "none"]
    /\ pre = db

\* a fault is injected only where it makes the call fail, and only while the
\* budget lasts
MayInject(f, r, unfaulted) == f = "none" \/ (faults < MaxFaults /\ r # unfaulted)
Injected(f) == IF f = "none" THEN faults ELSE faults + 1

DoCreateTables ==
    \E f \in FaultKinds :
        /\ MayInject(f, CreateTables(db, f), CreateTables(db, "none"))
        /\ LET r == CreateTables(db, f)
           IN /\ db' = r.st
              /\ ret' = Call("create_tables", 0, 0, f, r.out)
        /\ faults' = Injected(f)
        /\ pre' = db
        /\ UNCHANGED <<held, lastOk>>

DoAddEntry ==
    \E listing_data \in RecordInputs, f \in FaultKinds :
        /\ MayInject(f, AddEntry(db, listing_data, f), AddEntry(db, listing_data, "none"))
        /\ LET r == AddEntry(db, listing_data, f)
               hasId == "id" \in DOMAIN listing_data
               id == IF hasId THEN listing_data["id"].n ELSE 0
           IN /\ db' = r.st
              /\ ret' = Call("add_entry", id, 0, f, r.out)
              /\ held' = IF ~hasId THEN held
                         ELSE [held EXCEPT ![id] = IF r.out.kind = "return"
                                                   THEN [set |-> TRUE, rec |-> listing_data]
                                                   ELSE NotHeld]
              /\ lastOk' = IF hasId /\ r.out.kind = "return"
                           THEN [lastOk EXCEPT ![id] = "add"] ELSE lastOk
        /\ faults' = Injected(f)
        /\ pre' = db

DoGetListing ==
    \E id \in Ids, f \in FaultKinds :
        /\ MayInject(f, GetListing(db, id, f), GetListing(db, id, "none"))
        /\ LET r == GetListing(db, id, f)
           IN /\ db' = r.st
              /\ ret' = Call("get_listing", id, 0, f, r.out)
        /\ faults' = Injected(f)
        /\ pre' = db
        /\ UNCHANGED <<held, lastOk>>

DoGetListingCount ==
    \E f \in FaultKinds :
        /\ MayInject(f, GetListingCount(db, f), GetListingCount(db, "none"))
        /\ LET r == GetListingCount(db, f)
           IN /\ db' = r.st
              /\ ret' = Call("get_listing_count", 0, 0, f, r.out)
        /\ faults' = Injected(f)
        /\ pre' = db
        /\ UNCHANGED <<held, lastOk>>

DoGetAllListings ==
    \E f \in FaultKinds :
        /\ MayInject(f, GetAllListings(db, f), GetAllListings(db, "none"))
        /\ LET r == GetAllListings(db, f)
           IN /\ db' = r.st
              /\ ret' = Call("get_all_listings", 0, 0, f, r.out)
        /\ faults' = Injected(f)
        /\ pre' = db
        /\ UNCHANGED <<held, lastOk>>

DoDeleteListing ==
    \E id \in Ids, f \in FaultKinds :
        /\ MayInject(f, DeleteListing(db, id, f), DeleteListing(db, id, "none"))
        /\ LET r == DeleteListing(db, id, f)
           IN /\ db' = r.st
              /\ ret' = Call("delete_listing", id, 0, f, r.out)
              /\ held' = [held EXCEPT ![id] = NotHeld]
              /\ lastOk' = IF r.out.kind = "return"
                           THEN [lastOk EXCEPT ![id] = "delete"] ELSE lastOk
        /\ faults' = Injected(f)
        /\ pre' = db

DoListingExists ==
    \E id \in Ids, f \in FaultKinds :
        /\ MayInject(f, ListingExists(db, id, f), ListingExists(db, id, "none"))
        /\ LET r == ListingExists(db, id, f)
           IN /\ db' = r.st
              /\ ret' = Call("listing_exists", id, 0, f, r.out)
        /\ faults' = Injected(f)
        /\ pre' = db
        /\ UNCHANGED <<held, lastOk>>

DoClose ==
    /\ db.conn.open
    /\ db' = Close(db)
    /\ ret' = Call("close", 0, 0, "none", Return(NoVal))
    /\ pre' = db
    /\ UNCHANGED <<faults, held, lastOk>>

Next ==
    \/ DoCreateTables
    \/ DoAddEntry
    \/ DoGetListing
    \/ DoGetListingCount
    \/ DoGetAllListings
    \/ DoDeleteListing
    \/ DoListingExists
    \/ DoClose

Spec == Init /\ [][Next]_vars

\* ------------------------------------------------------------------------
\* The same manager over a file that already holds rows, some of them with
\* text json.loads rejects (a document cut short by another writer)
\* ------------------------------------------------------------------------
StartRows(id) ==
    LET CorruptRow ==
            [url |-> PlainUrl(id),
             json |-> [id |-> IntLit(id), url |-> <<"\"", "https://airbnb.com">>]]
        ValidRow(rec) == [url |-> rec["url"], json |-> JsonDumps(rec)]
    IN {CorruptRow} \cup {ValidRow(rec) : rec \in RecordsOf(id)}

InitCorrupt ==
    /\ \E present \in SUBSET Ids :
          \E rows \in [present -> UNION {StartRows(id) : id \in Ids}] :
              /\ \A id \in present : rows[id] \in StartRows(id)
              /\ db = NewManager([schema |-> TRUE, rows |-> rows])
    /\ ret = Call("init", 0, 0, "none", Return(NoVal))
    /\ faults = 0
    /\ held = [id \in Ids |-> NotHeld]
    /\ lastOk = [id \in Ids |-> "none"]
    /\ pre = db

SpecCorrupt == InitCorrupt /\ [][Next]_vars

\* ------------------------------------------------------------------------
\* Properties of the store (checked under Spec unless said otherwise)
\* ------------------------------------------------------------------------
Stored(st) == View(st).rows

\* C1: when get_listing(id) returns and the last put or delete that targeted
\* id was an add_entry(record) that succeeded, whatever was put or deleted
\* under other ids since, it returns a record equal to that record: the same
\* keys and the same values
C1_RoundTrip ==
    (ret.op = "get_listing" /\ ret.kind = "return" /\ held[ret.id].set)
        => ret.val = DictVal(held[ret.id].rec)

\* get_listing returned the float-cost record put under id 1 while another
\* id was deleted after having been added
C1_Witness ==
    /\ ret.op = "get_listing" /\ ret.kind = "return" /\ ret.id = 1
    /\ held[1].set /\ "cost" \in DOMAIN ret.val.rec
    /\ ret.val.rec["cost"] = PyFloat(1250)
    /\ lastOk[2] = "delete"

\* C2: an add_entry that succeeds for an id already stored leaves
\* get_listing_count() as it was and makes get_listing(id) return exactly the
\* new record, and putting the same record once more changes neither
C2_ReplaceWholesale ==
    (ret.op = "add_entry" /\ ret.kind = "return" /\ ret.id \in DOMAIN Stored(pre))
        => LET rec == held[ret.id].rec
               again == AddEntry(db, rec, "none")
           IN /\ GetListingCount(db, "none").out = Return(IntVal(Cardinality(DOMAIN Stored(pre))))
              /\ GetListing(db, ret.id, "none").out = Return(DictVal(rec))
              /\ again.out.kind = "return"
              /\ GetListingCount(again.st, "none").out = GetListingCount(db, "none").out
              /\ GetListing(again.st, ret.id, "none").out = GetListing(db, ret.id, "none").out

\* a record replaced a stored document that had fields the record lacks
C2_Witness ==
    /\ ret.op = "add_entry" /\ ret.kind = "return" /\ ret.id \in DOMAIN Stored(pre)
    /\ JsonValid(Stored(pre)[ret.id].json)
    /\ "daily_cost" \in DOMAIN Stored(pre)[ret.id].json
    /\ "daily_cost" \notin DOMAIN held[ret.id].rec
    /\ Cardinality(DOMAIN Stored(db)) = 2

\* C3: listing_exists(id) returns true exactly when the last operation on id
\* that succeeded was an add_entry
C3_ExistsFollowsLastSuccess ==
    (ret.op = "listing_exists" /\ ret.kind = "return")
        => (ret.val.b <=> lastOk[ret.id] = "add")

\* C4: delete_listing(id) returns true exactly when id was stored before the
\* call; returning true it removed that row and no other, returning false it
\* left every row as it was; on an existing table it raises only when the
\* storage fails, never because the id is absent
C4_Delete ==
    ret.op = "delete_listing"
        => /\ ret.kind = "return" =>
                /\ ret.val = BoolVal(ret.id \in DOMAIN Stored(pre))
                /\ Stored(db) = Remove(Stored(pre), ret.id)
                /\ ret.val.b = FALSE => Stored(db) = Stored(pre)
           /\ (View(pre).schema /\ ~ret.fault) => ret.kind = "return"
           /\ ret.kind = "raise" => ret.err = "sqlite3.Error"

\* delete_listing returned false for an id that was absent while another
\* document was stored, and true for a stored one with another left behind
C4_Witness ==
    /\ ret.op = "delete_listing" /\ ret.kind = "return"
    /\ DOMAIN Stored(db) # {}
    /\ \/ ~ret.val.b /\ ret.id \notin DOMAIN Stored(pre)
       \/ ret.val.b /\ Cardinality(DOMAIN Stored(pre)) = 2

\* C5: a mutating operation that fails has re-raised, leaves the committed
\* documents as they were and leaves nothing uncommitted on the connection;
\* one that succeeds has committed
C5_AllOrNothing ==
    ret.op \in {"add_entry", "delete_listing", "create_tables"}
        => /\ ret.kind = "raise" => (db.file = pre.file /\ ~db.txn)
           /\ ret.kind = "return" => (~db.txn /\ db.file = View(db))

\* C6: add_entry with a record without id raises ValueError and has touched
\* neither the file nor the connection
C6_MissingId ==
    (ret.op = "add_entry" /\ ret.id = 0)
        => (ret.kind = "raise" /\ ret.err = "ValueError" /\ db = pre)

\* the ValueError came while documents were stored and no connection was open
C6_Witness ==
    /\ ret.op = "add_entry" /\ ret.err = "ValueError"
    /\ ~db.conn.open
    /\ DOMAIN db.file.rows # {}

\* C10 (under SpecCorrupt): on an existing table and without a storage fault
\* get_listing(id) returns None when no row has the id, the decoded record
\* when the row's text is valid and raises the JSON decode error when it is
\* not, and in each case what is stored is what was stored before
C10_GetListingOutcomes ==
    (ret.op = "get_listing" /\ ~ret.fault /\ View(pre).schema)
        => /\ ret.id \notin DOMAIN Stored(pre) => (ret.kind = "return" /\ ret.val = NoVal)
           /\ (ret.id \in DOMAIN Stored(pre) /\ JsonValid(Stored(pre)[ret.id].json))
                 => (ret.kind = "return"
                     /\ ret.val = DictVal(JsonLoads(Stored(pre)[ret.id].json)))
           /\ (ret.id \in DOMAIN Stored(pre) /\ ~JsonValid(Stored(pre)[ret.id].json))
                 => (ret.kind = "raise" /\ ret.err = "JSONDecodeError")
           /\ Stored(db) = Stored(pre)

CorruptIds(st) == {id \in DOMAIN Stored(st) : ~JsonValid(Stored(st)[id].json)}

\* C11 (under SpecCorrupt): a get_all_listings that returns gives the decoded
\* document of every stored row whose text is valid, once each and nothing
\* else, the corrupt rows being skipped: its length is get_listing_count()
\* less the number of corrupt rows
C11_GetAllSkipsCorrupt ==
    (ret.op = "get_all_listings" /\ ret.kind = "return")
        => LET items == ret.val.items
               valid == DOMAIN Stored(pre) \ CorruptIds(pre)
           IN /\ ret.val.t = "list"
              /\ \A id \in valid :
                     Cardinality({i \in DOMAIN items :
                                      items[i] = JsonLoads(Stored(pre)[id].json)}) = 1
              /\ \A i \in DOMAIN items :
                     \E id \in valid : items[i] = JsonLoads(Stored(pre)[id].json)
              /\ Len(items) = GetListingCount(pre, "none").out.val.n
                                  - Cardinality(CorruptIds(pre))

\* the scan met a corrupt row before a valid one and still returned the
\* valid one
C11_Witness ==
    /\ ret.op = "get_all_listings" /\ ret.kind = "return"
    /\ 1 \in CorruptIds(pre) /\ 2 \in DOMAIN Stored(pre) \ CorruptIds(pre)
    /\ Len(ret.val.items) = 1

\* ------------------------------------------------------------------------
\* The public write paths on their own: add_listing, update_listing_costs and
\* delete_listing, each through a manager of its own
\* ------------------------------------------------------------------------
LinkInputs ==
    LET Link(host, room, query) == <<host, "/rooms/">> \o room \o <<"?">> \o query
        Stay(check_in, check_out) ==
            <<"check_in=", check_in, "&", "check_out=", check_out>>
        Adults(digit) == <<"&", "adults=", digit>>
    IN
    { Link("https://www.airbnb.com", <<"1">>, Stay("2024-01-15", "2024-01-17") \o Adults("2")),
      Link("https://www.airbnb.com.sg", <<"2">>, Stay("2024-01-15", "2024-01-16T09:00:00")),
      Link("https://www.airbnb.com", <<"1">>, Stay("2024-01-15T18:00:00", "2024-01-16T09:00:00")),
      Link("https://www.example.com", <<"1">>, Stay("2024-01-15", "2024-01-17")),
      Link("https://www.airbnb.com", <<"1">>, Stay("2024-01-17", "2024-01-15")),
      Link("https://www.airbnb.com", <<"1">>, Stay("2024-01-15", "2024-01-17T00:00:00+00:00")) }

\* data[key] = value
WithKey(data, key, value) == (key :> value) @@ data

PayloadInputs ==
    LET Payload(shape, discounted, regular) ==
            [isEmpty |-> FALSE,
             price |-> [shape |-> shape, discountedPrice |-> PyStr(discounted),
                        price |-> PyStr(regular)]]
    IN
    { WithKey(Payload("main", <<"$", "8", "0">>, <<"$", "1", "0", "0">>),
              "person_capacity", PyInt(4)),
      Payload("main", <<>>, <<"$", "1", ",", "2", "0", "0", ".", "5">>),
      Payload("absent", <<>>, <<>>),
      WithKey(Payload("notdict", <<>>, <<>>), "person_capacity", PyInt(4)),
      EmptyPayload }

\* what pyairbnb.get_details does: it returns a payload or it raises
DetailsInputs ==
    {[raises |-> FALSE, data |-> d] : d \in PayloadInputs}
        \cup {[raises |-> TRUE, data |-> EmptyPayload]}

NewCosts == (-1)..MaxCost

Either(f1, f2) == IF f1 # "none" THEN f1 ELSE f2

\* the faults that can hit the first and the second store call of a path:
\* the first call makes the connection, the second one finds it open
FaultPairs ==
    {<<"none", "none">>}
        \cup {<<f, "none">> : f \in {"connect", "pragma_fk", "pragma_wal", "execute"}}
        \cup {<<"none", f>> : f \in {"execute", "commit_keep", "commit_undo"}}

DoAddListing ==
    \E link \in LinkInputs, details \in DetailsInputs :
        \E fs \in IF AddListingPrepare(link, details).ok /\ faults < MaxFaults
                  THEN FaultPairs ELSE {<<"none", "none">>} :
            /\ LET r == AddListing(db.file, link, details, fs[1], fs[2])
               IN /\ db' = NewManager(r.file)
                  /\ ret' = Call("add_listing", ExtractFromUrl(link).listing_id,
                                 IF details.raises THEN 1 ELSE 0, Either(fs[1], fs[2]), r.out)
            /\ faults' = Injected(Either(fs[1], fs[2]))
            /\ pre' = db
            /\ UNCHANGED <<held, lastOk>>

DoUpdateListingCosts ==
    \E id \in Ids, new_cost \in NewCosts :
        \E fs \in IF faults < MaxFaults THEN FaultPairs ELSE {<<"none", "none">>} :
            /\ LET r == UpdateListingCosts(db.file, id, new_cost, fs[1], fs[2])
               IN /\ Either(fs[1], fs[2]) # "none"
                        => r # UpdateListingCosts(db.file, id, new_cost, "none", "none")
                  /\ db' = NewManager(r.file)
                  /\ ret' = Call("update_listing_costs", id, new_cost,
                                 Either(fs[1], fs[2]), r.out)
            /\ faults' = Injected(Either(fs[1], fs[2]))
            /\ pre' = db
            /\ UNCHANGED <<held, lastOk>>

DoDeleteListingPath ==
    \E id \in Ids, f \in FaultKinds :
        /\ MayInject(f, DeleteListingPath(db.file, id, f), DeleteListingPath(db.file, id, "none"))
        /\ LET r == DeleteListingPath(db.file, id, f)
           IN /\ db' = NewManager(r.file)
              /\ ret' = Call("delete_listing", id, 0, f, r.out)
        /\ faults' = Injected(f)
        /\ pre' = db
        /\ UNCHANGED <<held, lastOk>>

NextPublic ==
    \/ DoAddListing
    \/ DoUpdateListingCosts
    \/ DoDeleteListingPath

SpecPublic == Init /\ [][NextPublic]_vars

\* ------------------------------------------------------------------------
\* Two managers on one file: update_listing_costs runs on the manager db,
\* between its get_listing and its add_entry another manager may commit a
\* delete_listing or an add_entry to the same file. ret holds the call of
\* update_listing_costs while it is pending (listing_data is held) and the
\* call made last otherwise, pre the manager as the last step of
\* update_listing_costs found it
\* ------------------------------------------------------------------------
InitShared ==
    /\ db = NewManager(Close(CreateTables(NewManager(EmptyFile), "none").st).file)
    /\ ret = Call("init", 0, 0, "none", Return(NoVal))
    /\ faults = 0
    /\ held = [id \in Ids |-> NotHeld]
    /\ lastOk = [id \in Ids |-> "none"]
    /\ pre = db

\* the file as a commit of the other manager leaves it for this one
Committed(st, file) == [st EXCEPT !.file = file, !.work = file]

\* update_listing_costs up to `listing_data = db_manager.get_listing(...)`
BeginUpdateListingCosts ==
    \E id \in Ids, new_cost \in NewCosts :
        /\ ret.kind # "pending"
        /\ LET g == GetListing(NewManager(db.file), id, "none")
           IN IF g.out.val.t = "none"
              THEN /\ db' = NewManager(Close(g.st).file)
                   /\ ret' = Call("update_listing_costs", id, new_cost, "none",
                                  Return(BoolVal(FALSE)))
              ELSE /\ db' = g.st
                   /\ ret' = [Call("update_listing_costs", id, new_cost, "none", g.out)
                                  EXCEPT !.kind = "pending"]
        /\ pre' = db
        /\ UNCHANGED <<faults, held, lastOk>>

\* update_listing_costs from `listing_data["cost"] = new_cost` on
EndUpdateListingCosts ==
    /\ ret.op = "update_listing_costs" /\ ret.kind = "pending"
    /\ LET a == AddEntry(db, WithCost(ret.val.rec, ret.arg), "none")
       IN /\ db' = NewManager(Close(a.st).file)
          /\ ret' = Call("update_listing_costs", ret.id, ret.arg, "none",
                         Return(BoolVal(a.out.kind = "return")))
    /\ pre' = db
    /\ UNCHANGED <<faults, held, lastOk>>

\* data_retrieval.delete_listing by the other manager
OtherDeleteListing ==
    \E id \in Ids :
        /\ LET r == DeleteListingPath(db.file, id, "none")
           IN /\ db' = Committed(db, r.file)
              /\ ret' = IF ret.kind = "pending" THEN ret
                        ELSE Call("delete_listing", id, 0, "none", r.out)
        /\ UNCHANGED <<faults, held, lastOk, pre>>

\* add_entry by the other manager
OtherAddEntry ==
    \E id \in Ids :
        \E listing_data \in RecordsOf(id) :
            /\ LET a == AddEntry(NewManager(db.file), listing_data, "none")
               IN /\ db' = Committed(db, Close(a.st).file)
                  /\ ret' = IF ret.kind = "pending" THEN ret
                            ELSE Call("add_entry", id, 0, "none", a.out)
            /\ UNCHANGED <<faults, held, lastOk, pre>>

NextShared ==
    \/ BeginUpdateListingCosts
    \/ EndUpdateListingCosts
    \/ OtherDeleteListing
    \/ OtherAddEntry

SpecShared == InitShared /\ [][NextShared]_vars

\* ------------------------------------------------------------------------
\* Properties of the public write paths (checked under SpecPublic)
\* ------------------------------------------------------------------------
Document(file, id) == JsonLoads(file.rows[id].json)

\* C7: every stored document has a positive integer id, a non-blank url, a
\* numeric cost that is not negative and a positive integer duration
C7_StoredRecordsValid ==
    \A id \in DOMAIN db.file.rows :
        LET rec == Document(db.file, id)
        IN /\ ValidateListingData(rec)
           /\ rec["id"].n = id
           /\ "duration" \in DOMAIN rec
           /\ rec["duration"].t = "int" /\ rec["duration"].n > 0

C9_UpdateCost ==
    ret.op = "update_listing_costs"
        => /\ ret.kind = "return" /\ ret.val.t = "bool"
           /\ ret.val.b =>
                /\ ret.id \in DOMAIN pre.file.rows
                /\ DOMAIN db.file.rows = DOMAIN pre.file.rows
                /\ Document(db.file, ret.id)
                       = WithCost(Document(pre.file, ret.id), ret.arg)
                /\ db.file.rows[ret.id].url = pre.file.rows[ret.id].url
                /\ \A other \in DOMAIN pre.file.rows :
                       other # ret.id => db.file.rows[other] = pre.file.rows[other]
           /\ ~ret.val.b => db = pre
           /\ (ret.id \in DOMAIN pre.file.rows /\ ~ret.fault) => ret.val.b
           /\ ret.id \notin DOMAIN pre.file.rows => ~ret.val.b

\* a cost was replaced in one of two stored documents
C9_Witness ==
    /\ ret.op = "update_listing_costs" /\ ret.val.b
    /\ Cardinality(DOMAIN db.file.rows) = 2
    /\ Document(db.file, ret.id)["cost"] = PyInt(ret.arg)
    /\ Document(pre.file, ret.id)["cost"] # PyInt(ret.arg)
    /\ Document(db.file, ret.id)["duration"] = Document(pre.file, ret.id)["duration"]

\* ------------------------------------------------------------------------
\* The functions without state, each applied to an argument drawn at the
\* start: ret holds the pending call and then its outcome
\* ------------------------------------------------------------------------
Applied(call, out) ==
    [op |-> call.op, kind |-> out.kind, err |-> out.err, input |-> call.input, val |-> out.val]

\* links put together from a host, a room id, the two dates and the number
\* of adults; "" leaves the part out
UrlInputs ==
    LET Param(name, value) == IF value = "" THEN <<>> ELSE <<"&", name, value>>
        UrlOf(host, room, check_in, check_out, adults) ==
            [host |-> host, room |-> room, check_in |-> check_in,
             check_out |-> check_out, adults |-> adults,
             link |-> <<host, "/rooms/">> \o room \o <<"?", "currency=", "SGD">>
                          \o Param("adults=", adults) \o Param("check_in=", check_in)
                          \o Param("check_out=", check_out)]
        UrlDates == DOMAIN IsoDates \cup {"soon", ""}
    IN
    { UrlOf(host, room, check_in, check_out, adults) :
        host \in AirbnbHosts \cup {"https://www.example.com"},
        room \in {<<"7">>, <<"1", "2">>, <<"x">>},
        check_in \in UrlDates, check_out \in UrlDates,
        adults \in {"", "3"} }

\* a payload with every sub-structure as the scraper delivers it
GoodPayload ==
    [isEmpty |-> FALSE,
     price |-> [shape |-> "main", discountedPrice |-> PyStr(<<"$", "8", "0">>),
                price |-> PyStr(<<"$", "1", "0", "0">>)],
     rating |-> PyDict([accuracy |-> PyFloat(450), value |-> PyStr(<<"4", ".", "8">>),
                        review_count |-> PyInt(150)]),
     amenities |-> PyList(<<PyDict([title |-> PyStr(<<"Kitchen">>),
                                    values |-> PyList(<<PyDict([title |-> PyStr(<<"Microwave">>)])>>)])>>),
     images |-> PyList(<<PyDict([url |-> PyStr(<<"https://a0.muscache.com/1.jpg">>)])>>),
     location_descriptions |->
         PyList(<<PyDict([title |-> PyStr(<<"Downtown">>), content |-> PyStr(<<"Great area">>)]),
                  PyDict([title |-> PyStr(<<"Getting Around">>),
                          content |-> PyStr(<<"Take metro", "<br />", "Walk 5 min">>)])>>),
     highlights |-> PyList(<<PyDict([title |-> PyStr(<<"Self check-in">>)])>>),
     reviews |-> PyList(<<PyDict([comments |-> PyStr(<<"Lovely">>), rating |-> PyInt(5),
                                  language |-> PyStr(<<"en">>)])>>),
     house_rules |->
         PyDict([additional |-> PyStr(<<"No shoes", "\n", "No parties">>),
                 general |-> PyList(<<PyDict([title |-> PyStr(<<"Checking in and out">>),
                                              values |-> PyList(<<PyDict([title |->
                                                  PyStr(<<"Check-in after 15:00">>)])>>)])>>)]),
     coordinates |-> PyDict([latitude |-> PyFloat(135), longitude |-> PyFloat(10382)]),
     person_capacity |-> PyInt(4),
     is_super_host |-> PyInt(1),
     room_type |-> PyStr(<<" ", "Entire home">>),
     sub_description |-> PyDict([items |-> PyList(<<PyStr(<<"2 bedrooms">>)>>)])]

SubStructures ==
    {"price", "rating", "amenities", "images", "location_descriptions", "highlights",
     "reviews", "house_rules", "coordinates", "person_capacity"}

\* the ways one sub-structure is damaged: the key missing, null, a value of
\* another type, an empty collection, a list with elements that are no
\* mappings, a mapping whose members are null
Damages ==
    [missing |-> PyNone, null |-> PyNone, number |-> PyInt(5), text |-> PyStr(<<"n/a">>),
     empty_list |-> PyList(<<>>), empty_dict |-> PyDict(<<>>),
     list_of_numbers |-> PyList(<<PyInt(5)>>), list_of_text |-> PyList(<<PyStr(<<"n/a">>)>>),
     list_of_null |-> PyList(<<PyNone>>),
     null_members |-> PyList(<<PyDict([title |-> PyNone, content |-> PyNone, values |-> PyNone,
                                       comments |-> PyNone, rating |-> PyNone,
                                       language |-> PyNone, url |-> PyNone])>>)]

\* the price structure is kept by its shape
Damaged(key, damage) ==
    IF key = "price"
    THEN [GoodPayload EXCEPT !.price.shape = IF damage = "missing" THEN "absent" ELSE "notdict"]
    ELSE IF damage = "missing" THEN [k \in DOMAIN GoodPayload \ {key} |-> GoodPayload[k]]
         ELSE WithKey(GoodPayload, key, Damages[damage])

\* the calls of process_listing_data: the argument checks on a payload that
\* is sound, empty or damaged, and every damage of every sub-structure (but a
\* number for person_capacity, which is what it should be) under sound
\* arguments
ProcessInputs ==
    LET ProcessCall(data, listing_id, link, stay_length, key, damage) ==
            [data |-> data, listing_id |-> listing_id, link |-> link,
             stay_length |-> stay_length, key |-> key, damage |-> damage]
        ProcessLinks ==
            {<<>>, <<" ">>, <<" ", "https://www.airbnb.com", "/rooms/", "7", " ">>}
        DamagePairs ==
            (SubStructures \X DOMAIN Damages) \ {<<"person_capacity", "number">>}
    IN
    { ProcessCall(data, listing_id, link, stay_length, "", "") :
        data \in {GoodPayload, EmptyPayload, Damaged("rating", "number")},
        listing_id \in {-1, 0, 7}, link \in ProcessLinks, stay_length \in {-1, 0, 2} }
    \cup { ProcessCall(Damaged(pair[1], pair[2]), 7,
                       <<"https://www.airbnb.com", "/rooms/", "7">>, 2, pair[1], pair[2]) :
             pair \in DamagePairs }

\* a record of the given members; Absent leaves the key out
Absent == [t |-> "absent", n |-> 0, s |-> <<>>]

RECURSIVE RecordOf(_, _)
RecordOf(keys, members) ==
    IF keys = <<>> THEN EmptyDict
    ELSE IF members[Head(keys)] = Absent THEN RecordOf(Tail(keys), members)
         ELSE WithKey(RecordOf(Tail(keys), members), Head(keys), members[Head(keys)])

\* records handed to validate_listing_data
ValidateInputs ==
    { [id |-> id, url |-> url, cost |-> cost] :
        id \in {Absent, PyInt(7), PyInt(0), PyInt(-1), PyStr(<<"7">>), PyFloat(700), PyNone},
        url \in {Absent, PyStr(<<"https://airbnb.com", "/rooms/", "7">>), PyStr(<<>>),
                 PyStr(<<" ", " ">>), PyInt(5), PyNone},
        cost \in {Absent, PyInt(0), PyInt(100), PyFloat(8000), PyFloat(-50), PyInt(-1),
                  PyStr(<<"8", "0">>), PyNone} }

\* records read back from the store, as add_listing and as direct callers
\* of add_entry write them
ListingInputs ==
    { [cost |-> cost, duration |-> duration, daily_cost |-> daily,
       misc_cost |-> IF daily = Absent THEN Absent ELSE PyInt(50), images |-> images,
       id |-> PyInt(7), location |-> PyStr(<<"Great area">>)] :
        cost \in {Absent, PyFloat(1250), PyInt(0)},
        duration \in {PyInt(2), PyInt(4)},
        daily \in {Absent, PyInt(100)},
        images \in {Absent, PyNone, PyList(<<>>),
                    PyList(<<PyStr(<<"https://a0.muscache.com/1.jpg">>),
                             PyStr(<<"https://a0.muscache.com/2.jpg">>)>>)} }

ListingKeys == <<"id", "location", "cost", "duration", "daily_cost", "misc_cost", "images">>

\* lists of two or three description blocks: a block has a title of its own
\* or one of the two the extractor knows, and content that may be empty
LocationInputs ==
    LET blocks == [title : {"Downtown", "Neighbourhood Highlights", "Getting Around"},
                   content : {<<>>, <<"Great area">>,
                              <<"Take metro", "<br />", "Walk 5 min">>}]
    IN [1..2 -> blocks] \cup [1..3 -> blocks]

\* amenity lists of two or three categories: a category has a title and
\* items, an item has a title or ("") none
AmenityInputs ==
    LET entries == [title : {"Kitchen", "Bathroom"},
                    items : {<<"Microwave", "Oven">>, <<"Shower", "">>, <<"">>}]
    IN [1..2 -> entries] \cup [1..3 -> entries]

\* rating mappings: three categories and review_count, each left out, in
\* range, out of range, a numeric string or no number at all
RatingInputs ==
    LET values == {Absent, PyFloat(450), PyFloat(480), PyFloat(420), PyInt(10), PyInt(0),
                   PyInt(11), PyFloat(-50), PyStr(<<"4", ".", "8">>), PyStr(<<"n/a">>),
                   PyStr(<<>>), PyNone}
    IN [cleanliness : values, communication : values, location : values,
        review_count : {Absent, PyInt(150), PyInt(7)}]

\* price members as the scraper and hand-written callers give them
PriceInputs ==
    LET values == {PyStr(<<"$", "8", "0">>), PyStr(<<"$", "1", "0", "0">>),
                   PyStr(<<"$", "0">>), PyStr(<<>>), PyStr(<<"n/a">>), PyStr(<<"$", ",">>),
                   PyStr(<<"$", "1", ",", "2", "0", "0", ".", "5">>),
                   PyInt(-5), PyInt(0), PyFloat(-550), PyNone, PyDict(<<>>)}
    IN [wrapped : BOOLEAN, discounted : values, regular : values]

\* lists of one, two or six reviews; the review at position i carries the
\* i-th date, so that every review of a list can be told from the others.
\* The lists of six hold one kind of review that qualifies and three that do
\* not, the shorter ones also a second kind that qualifies
ReviewInputs ==
    LET dates == <<"1 May", "2 May", "3 May", "4 May", "5 May", "6 May">>
        kinds == {[language |-> "en", comments |-> <<" ", "Great", " ">>, rating |-> PyInt(5)],
                  [language |-> "fr", comments |-> <<"Bien">>, rating |-> PyInt(5)],
                  [language |-> "en", comments |-> <<" ">>, rating |-> PyInt(5)],
                  [language |-> "en", comments |-> <<"Great">>, rating |-> PyStr(<<"n/a">>)]}
        more == kinds \cup {[language |-> "EN", comments |-> <<"Nice">>,
                             rating |-> PyStr(<<"4">>)]}
        Dated(reviews) ==
            [i \in DOMAIN reviews |-> reviews[i] @@ [localizedDate |-> <<dates[i]>>]]
    IN {Dated(reviews) : reviews \in [1..1 -> more] \cup [1..2 -> more] \cup [1..6 -> kinds]}

PureCalls ==
    LET Pending(fn, input) == [op |-> fn, kind |-> "pending", input |-> input]
        FieldNames == DOMAIN CHECKBOX_FIELD_MAPPING \cup {"cost", "Price"}
    IN
    {Pending("extract_from_url", u) : u \in UrlInputs}
        \cup {Pending("validate_airbnb_url", u) : u \in UrlInputs}
        \cup {Pending("process_listing_data", c) : c \in ProcessInputs}
        \cup {Pending("validate_listing_data", r) : r \in ValidateInputs}
        \cup {Pending("extract_field_from_listing", [field_name |-> name, listing |-> l]) :
                 name \in FieldNames, l \in ListingInputs}
        \cup {Pending("extract_location_info", b) : b \in LocationInputs}
        \cup {Pending("extract_price", m) : m \in PriceInputs}
        \cup {Pending("calculate_average_rating", r) : r \in RatingInputs}
        \cup {Pending("extract_amenities", a) : a \in AmenityInputs}
        \cup {Pending("extract_reviews_summary", r) : r \in ReviewInputs}

InitPure ==
    /\ ret \in PureCalls
    /\ db = NewManager(EmptyFile)
    /\ faults = 0
    /\ held = [id \in Ids |-> NotHeld]
    /\ lastOk = [id \in Ids |-> "none"]
    /\ pre = db

ApplyExtractFromUrl ==
    /\ ret.kind = "pending" /\ ret.op = "extract_from_url"
    /\ LET u == ExtractFromUrl(ret.input.link)
       IN ret' = Applied(ret, IF u.ok THEN Return(u) ELSE Raise(u.err))
    /\ UNCHANGED <<db, faults, held, lastOk, pre>>

ApplyValidateAirbnbUrl ==
    /\ ret.kind = "pending" /\ ret.op = "validate_airbnb_url"
    /\ ret' = Applied(ret, ValidateAirbnbUrl(ret.input.link))
    /\ UNCHANGED <<db, faults, held, lastOk, pre>>

ApplyProcessListingData ==
    /\ ret.kind = "pending" /\ ret.op = "process_listing_data"
    /\ LET Outcome(p) ==
               [kind |-> IF p.ok THEN "return" ELSE "raise", err |-> p.err, val |-> p]
       IN ret' = Applied(ret, Outcome(ProcessListingData(
                     ret.input.data, ret.input.listing_id, ret.input.link,
                     ret.input.stay_length)))
    /\ UNCHANGED <<db, faults, held, lastOk, pre>>

ApplyValidateListingData ==
    /\ ret.kind = "pending" /\ ret.op = "validate_listing_data"
    /\ ret' = Applied(ret, Return(BoolVal(
                  ValidateListingData(RecordOf(<<"id", "url", "cost">>, ret.input)))))
    /\ UNCHANGED <<db, faults, held, lastOk, pre>>

ApplyExtractFieldFromListing ==
    /\ ret.kind = "pending" /\ ret.op = "extract_field_from_listing"
    /\ ret' = Applied(ret, ExtractFieldFromListing(ret.input.field_name,
                                                   RecordOf(ListingKeys, ret.input.listing)))
    /\ UNCHANGED <<db, faults, held, lastOk, pre>>

ApplyExtractLocationInfo ==
    /\ ret.kind = "pending" /\ ret.op = "extract_location_info"
    /\ ret' = Applied(ret, ExtractLocationInfo(PyList(
                  [i \in DOMAIN ret.input |->
                      PyDict([title |-> PyStr(<<ret.input[i].title>>),
                              content |-> PyStr(ret.input[i].content)])])))
    /\ UNCHANGED <<db, faults, held, lastOk, pre>>

\* extract_price(data): data is {"price": {"main": members}} when wrapped,
\* and {"main": members} when the mapping is handed over as it is
ApplyExtractPrice ==
    /\ ret.kind = "pending" /\ ret.op = "extract_price"
    /\ LET members == [discountedPrice |-> ret.input.discounted,
                       price |-> ret.input.regular]
           data == IF ret.input.wrapped
                   THEN [isEmpty |-> FALSE, price |-> [shape |-> "main"] @@ members]
                   ELSE [isEmpty |-> FALSE, main |-> PyDict(members),
                         price |-> [shape |-> "absent", discountedPrice |-> PyNone,
                                    price |-> PyNone]]
       IN ret' = Applied(ret, Return(PyFloat(ExtractPrice(data))))
    /\ UNCHANGED <<db, faults, held, lastOk, pre>>

ApplyCalculateAverageRating ==
    /\ ret.kind = "pending" /\ ret.op = "calculate_average_rating"
    /\ ret' = Applied(ret, CalculateAverageRating(PyDict(RecordOf(
                  <<"cleanliness", "communication", "location", "review_count">>,
                  ret.input))))
    /\ UNCHANGED <<db, faults, held, lastOk, pre>>

ApplyExtractAmenities ==
    /\ ret.kind = "pending" /\ ret.op = "extract_amenities"
    /\ LET Item(title) == IF title = "" THEN PyDict([available |-> PyInt(1)])
                          ELSE PyDict([title |-> PyStr(<<title>>)])
           Entry(e) == PyDict([title |-> PyStr(<<e.title>>),
                               values |-> PyList([i \in DOMAIN e.items |-> Item(e.items[i])])])
       IN ret' = Applied(ret, ExtractAmenities(
                     PyList([i \in DOMAIN ret.input |-> Entry(ret.input[i])])))
    /\ UNCHANGED <<db, faults, held, lastOk, pre>>

ApplyExtractReviewsSummary ==
    /\ ret.kind = "pending" /\ ret.op = "extract_reviews_summary"
    /\ LET Review(r) == PyDict([language |-> PyStr(<<r.language>>),
                                comments |-> PyStr(r.comments),
                                rating |-> r.rating,
                                localizedDate |-> PyStr(r.localizedDate)])
       IN ret' = Applied(ret, ExtractReviewsSummary(
                     PyList([i \in DOMAIN ret.input |-> Review(ret.input[i])])))
    /\ UNCHANGED <<db, faults, held, lastOk, pre>>

NextPure ==
    \/ ApplyExtractPrice
    \/ ApplyExtractReviewsSummary
    \/ ApplyExtractAmenities
    \/ ApplyCalculateAverageRating
    \/ ApplyExtractFromUrl
    \/ ApplyValidateAirbnbUrl
    \/ ApplyProcessListingData
    \/ ApplyValidateListingData
    \/ ApplyExtractFieldFromListing
    \/ ApplyExtractLocationInfo

SpecPure == InitPure /\ [][NextPure]_vars

\* ------------------------------------------------------------------------
\* Properties of the URL parser (checked under SpecPure)
\* ------------------------------------------------------------------------
\* C12: for every link extract_from_url accepts the stay is the whole-day
\* part of check-out less check-in, and it is at least 1 (StayHours: the
\* hours between the two dates, read off the strings the parser returned)
C12_StayWholeDaysPositive ==
    LET StayHours(u) ==
            Hours(IsoDates[u.check_out[1]]) - Hours(IsoDates[u.check_in[1]])
    IN
    (ret.op = "extract_from_url" /\ ret.kind = "return")
        => /\ 24 * ret.val.stay <= StayHours(ret.val)
           /\ StayHours(ret.val) < 24 * (ret.val.stay + 1)
           /\ ret.val.stay >= 1

\* C13: extract_from_url fails exactly when the link is not well formed
\* (host and numeric room id, both dates present and parseable) or its
\* dates are not in order (check-out after check-in), every failure is a
\* ValueError, and a link without adults that is accepted gives adults = 1
C13_UrlFailures ==
    LET WellFormed(u) ==
            /\ u.host \in AirbnbHosts /\ IsDigit(u.room[1])
            /\ u.check_in \in DOMAIN IsoDates /\ u.check_out \in DOMAIN IsoDates
        InOrder(u) == Hours(IsoDates[u.check_out]) > Hours(IsoDates[u.check_in])
    IN
    (ret.op = "extract_from_url" /\ ret.kind # "pending")
        => /\ ret.kind = "raise" <=> (~WellFormed(ret.input) \/ ~InOrder(ret.input))
           /\ ret.kind = "raise" => ret.err = "ValueError"
           /\ (ret.kind = "return" /\ ret.input.adults = "") => ret.val.adults = 1

\* C14: validate_airbnb_url always returns, and returns true exactly when
\* extract_from_url returns a result for the same link
C14_ValidatorTotal ==
    (ret.op = "validate_airbnb_url" /\ ret.kind # "pending")
        => /\ ret.kind = "return"
           /\ ret.val.b <=> ExtractFromUrl(ret.input.link).ok

\* ------------------------------------------------------------------------
\* Properties of the normalisation (checked under SpecPure)
\* ------------------------------------------------------------------------
Blank(link) == \A i \in DOMAIN link : link[i] = " "

\* C15: process_listing_data raises ValueError whenever the payload is
\* empty, listing_id <= 0, the link is blank or stay_length <= 0, and then
\* the debug file was not written and no record, whole or partial, came out
C15_InvalidInputFirst ==
    (ret.op = "process_listing_data" /\ ret.kind # "pending"
        /\ (ret.input.data.isEmpty \/ ret.input.listing_id <= 0
                \/ Blank(ret.input.link) \/ ret.input.stay_length <= 0))
        => /\ ret.kind = "raise" /\ ret.err = "ValueError"
           /\ ~ret.val.debug
           /\ ret.val.info = EmptyDict /\ ret.val.fields = <<>>

\* only the stay length was wrong, on a payload with a damaged rating that
\* the extractors would have raised on
C15_Witness ==
    /\ ret.op = "process_listing_data" /\ ret.kind = "raise"
    /\ ret.input.stay_length = 0 /\ ret.input.listing_id = 7 /\ ~Blank(ret.input.link)
    /\ ret.input.data = Damaged("rating", "number")
    /\ ret.err = "ValueError" /\ ~ret.val.debug

\* C16: with valid arguments and a payload in which one sub-structure is
\* damaged, process_listing_data returns a record: the fields of the
\* damaged sub-structure have their defaults (a mapping with null members
\* may leave the text "None" instead) and every other field is what the
\* undamaged payload gives (GoodRecord: the record of the undamaged payload;
\* FieldsOf: the fields each sub-structure feeds; Defaults: their defaults)
C16_DamageDegrades ==
    LET GoodRecord ==
            ProcessListingData(GoodPayload, 7,
                               <<"https://www.airbnb.com", "/rooms/", "7">>, 2)
        FieldsOf ==
            [key \in SubStructures |->
                CASE key = "price" -> {}
                  [] key = "rating" -> {"average_rating"}
                  [] key = "location_descriptions" -> {"location", "getting_around"}
                  [] key = "reviews" -> {"reviews_summary"}
                  [] key = "house_rules" -> {"house_rules", "check_in_out"}
                  [] key = "person_capacity" -> {"capacity"}
                  [] OTHER -> {key}]
        Defaults ==
            [average_rating |-> PyFloat(0), amenities |-> PyDict(<<>>),
             images |-> <<>>, location |-> <<>>, getting_around |-> <<>>,
             highlights |-> PyList(<<>>), reviews_summary |-> PyList(<<>>),
             house_rules |-> NoHouseRules, check_in_out |-> <<>>,
             coordinates |-> JsonDumps(<<>>), capacity |-> PyInt(0)]
    IN
    (ret.op = "process_listing_data" /\ ret.kind # "pending" /\ ret.input.key # "")
        => /\ ret.kind = "return"
           /\ \A field \in DOMAIN Defaults :
                  IF field \in FieldsOf[ret.input.key]
                  THEN ret.input.damage = "null_members"
                           \/ ret.val.fields[field] = Defaults[field]
                  ELSE ret.val.fields[field] = GoodRecord.fields[field]
           /\ ret.val.info = IF ret.input.key = "price"
                             THEN [GoodRecord.info EXCEPT !["cost"] = PyFloat(0)]
                             ELSE GoodRecord.info

C18_AccessorTotal ==
    (ret.op = "extract_field_from_listing" /\ ret.kind # "pending")
        => LET name == ret.input.field_name
               l == ret.input.listing
           IN /\ ret.kind = "raise" <=> name \notin DOMAIN CHECKBOX_FIELD_MAPPING
              /\ (ret.kind = "return" /\ name = "Cover")
                    => ret.val = IF l.images \in {Absent, PyNone, PyList(<<>>)}
                                 THEN PyStr(<<>>) ELSE l.images.items[1]
              /\ (ret.kind = "return" /\ name = "Location") => ret.val = l.location
              /\ (ret.kind = "return" /\ name = "Duration") => ret.val = l.duration
              /\ (ret.kind = "return" /\ name = "Notes") => ret.val = PyStr(<<>>)

C20_LocationIsTitle ==
    (/\ ret.op = "extract_location_info" /\ ret.kind # "pending"
     /\ Len(ret.input) = 2
     /\ ret.input[1].title = "Downtown" /\ ret.input[1].content # <<>>
     /\ ret.input[2].title = "Getting Around")
        => /\ ret.kind = "return"
           /\ ret.val.location = <<ret.input[1].title>>
           /\ Len(ret.val.getting_around) = Len(ret.input[2].content)
           /\ \A i \in DOMAIN ret.input[2].content :
                  ret.val.getting_around[i] =
                      IF ret.input[2].content[i] = "<br />" THEN "\n"
                      ELSE ret.input[2].content[i]

\* C30: every field name of CHECKBOX_FIELD_MAPPING other than 'cover' and
\* 'notes' is a top-level field of every record process_listing_data
\* returns, so extract_field_from_listing returns the record's own value for
\* each label and never the default ''
C30_CatalogInRecord ==
    LET listing == ret.val.info @@ ret.val.fields
    IN (ret.op = "process_listing_data" /\ ret.kind = "return")
        => \A field_name \in DOMAIN CHECKBOX_FIELD_MAPPING :
               CHECKBOX_FIELD_MAPPING[field_name] \notin {"cover", "notes"}
                   => /\ CHECKBOX_FIELD_MAPPING[field_name] \in DOMAIN listing
                      /\ ExtractFieldFromListing(field_name, listing)
                             = Return(listing[CHECKBOX_FIELD_MAPPING[field_name]])

\* C29: every record process_listing_data returns passes validate_listing_data
\* (id a positive integer, url not blank, cost a number that is not negative),
\* also when no price was found and cost is 0.0
C29_ProcessedIsValid ==
    (ret.op = "process_listing_data" /\ ret.kind = "return")
        => ValidateListingData(ret.val.info)

\* a record returned for a payload without a price: cost is 0.0
C29_Witness ==
    /\ ret.op = "process_listing_data" /\ ret.kind = "return"
    /\ ret.input.data.price.shape # "main"
    /\ ret.val.info["cost"] = PyFloat(0)
    /\ ValidateListingData(ret.val.info)

\* C28: update_listing_costs(X, c) on one manager is atomic with respect to
\* delete_listing(X) and add_entry(X) on another manager of the same file:
\* when it returns True, the listing was there when it wrote, and the
\* document it leaves is the one it found with the cost replaced
C28_UpdateAtomic ==
    (ret.op = "update_listing_costs" /\ ret.kind = "return" /\ ret.val.b)
        => /\ ret.id \in DOMAIN pre.file.rows
           /\ Document(db.file, ret.id) = WithCost(Document(pre.file, ret.id), ret.arg)

\* C27: extract_reviews_summary returns, in source order, the first five
\* (or all, if fewer) reviews that qualify: language English in any case,
\* comment not empty after trimming, rating an integer; never more than five
\* entries, and a review that does not qualify takes no slot
C27_FirstFiveQualifying ==
    LET in == ret.input
        Qualifies(r) ==
            /\ r.language \in {"en", "EN", "En", "eN"}
            /\ \E i \in DOMAIN r.comments : r.comments[i] # " "
            /\ \/ r.rating.t = "int"
               \/ r.rating.t = "str" /\ r.rating.s # <<>>
                     /\ \A i \in DOMAIN r.rating.s :
                            r.rating.s[i] \in {"0", "1", "2", "3", "4", "5"}
        Qualifying == {i \in DOMAIN in : Qualifies(in[i])}
        Nth(k) == CHOOSE i \in Qualifying : Cardinality({j \in Qualifying : j < i}) = k - 1
        Trimmed(comments) == SelectSeq(comments, LAMBDA token : token # " ")
    IN (ret.op = "extract_reviews_summary" /\ ret.kind # "pending")
        => /\ ret.kind = "return"
           /\ Len(ret.val.items) = IF Cardinality(Qualifying) < 5
                                    THEN Cardinality(Qualifying) ELSE 5
           /\ \A k \in DOMAIN ret.val.items :
                  /\ ret.val.items[k].date = in[Nth(k)].localizedDate
                  /\ ret.val.items[k].comment = Trimmed(in[Nth(k)].comments)
                  /\ ret.val.items[k].rating = IF in[Nth(k)].rating.t = "int" THEN 5 ELSE 4

\* six reviews, the first of which does not qualify: the other five are all
\* returned
C27_Witness ==
    /\ ret.op = "extract_reviews_summary" /\ ret.kind = "return"
    /\ Len(ret.input) = 6 /\ ret.input[1].language = "fr"
    /\ Len(ret.val.items) = 5
    /\ ret.val.items[5].date = <<"6 May">>

\* C26: if a block is titled 'neighbourhood highlights', location is taken
\* from such a block wherever it stands; otherwise location is the cleaned
\* content of the first block not titled 'getting around' whose content is
\* not empty, and "" when there is none
C26_LocationPriority ==
    LET in == ret.input
        Clean(content) ==
            [i \in DOMAIN content |-> IF content[i] = "<br />" THEN "\n" ELSE content[i]]
        Titled == {i \in DOMAIN in : in[i].title = "Neighbourhood Highlights"}
        Others == {i \in DOMAIN in : in[i].title = "Downtown" /\ in[i].content # <<>>}
    IN (ret.op = "extract_location_info" /\ ret.kind # "pending")
        => /\ ret.kind = "return"
           /\ ret.val.location =
                  IF Titled # {}
                  THEN Clean(in[CHOOSE i \in Titled :
                                   ret.val.location = Clean(in[i].content)
                                       \/ \A j \in Titled :
                                              ret.val.location # Clean(in[j].content)].content)
                  ELSE IF Others # {} THEN Clean(in[First(Others)].content)
                       ELSE <<>>

\* ------------------------------------------------------------------------
\* Properties of the connection (checked under Spec)
\* ------------------------------------------------------------------------
\* C24: every operation made while a handle is held runs on that handle (no
\* second connection is opened), and after close(), which is what leaving
\* the with block calls whether the block raised or not, no connection is
\* held and nothing is pending
C24_OneHandle ==
    /\ (ret.op \notin {"init", "close"} /\ pre.conn.open)
            => (db.conn.open /\ db.conn = pre.conn)
    /\ db.conn.open => db.conn.id = 1
    /\ ret.op = "close" => (~db.conn.open /\ ~db.txn /\ db.work = db.file)

\* a call raised and left a transaction open on the handle; the close that
\* followed released the handle
C24_Witness ==
    /\ ret.op = "close"
    /\ pre.conn.open /\ pre.txn
    /\ ~db.conn.open

\* C25: a handle on which an operation runs has had foreign-key enforcement
\* and write-ahead logging applied when it was set up, also when it is the
\* handle of a setup that failed part-way
C25_PragmasApplied ==
    (ret.op \notin {"init", "close"} /\ pre.conn.open)
        => (pre.conn.fk /\ pre.conn.wal)

\* ------------------------------------------------------------------------
\* Properties of the extractors (checked under SpecPure)
\* ------------------------------------------------------------------------
\* C21: extract_price returns the numeric value of the discounted price when
\* that value is above zero, else the numeric value of the regular price,
\* and 0.0 when neither member holds a digit; given {"main":
\* {"discountedPrice": "$80", "price": "$100"}} the result is 80.0; the
\* result is never negative
C21_PriceExtraction ==
    LET Value(v) == IF v.t \in {"str", "int", "float"} THEN ExtractNumericPrice(v) ELSE 0
        HasDigit(v) ==
            /\ v.t \in {"str", "int", "float"}
            /\ \E i \in DOMAIN Str(v) : IsDigit(Str(v)[i])
        in == ret.input
    IN (ret.op = "extract_price" /\ ret.kind # "pending")
        => /\ ret.kind = "return" /\ ret.val.t = "float" /\ ret.val.n >= 0
           /\ in.wrapped
                => /\ ret.val.n = IF Value(in.discounted) > 0
                                  THEN Value(in.discounted) ELSE Value(in.regular)
                   /\ (~HasDigit(in.discounted) /\ ~HasDigit(in.regular))
                        => ret.val.n = 0
           /\ (in.discounted = PyStr(<<"$", "8", "0">>)
                    /\ in.regular = PyStr(<<"$", "1", "0", "0">>))
                => ret.val.n = 8000

\* C22: calculate_average_rating returns the mean, rounded to 2 decimals, of
\* exactly the entries that are numeric, lie in [0, 10] and are not keyed
\* review_count; 0.0 when there is no such entry; the result lies in
\* [0, 10]; over cleanliness 4.5, communication 4.8, location 4.2 and
\* review_count 150 it is 4.5
C22_AverageRating ==
    LET Hundredths(v) ==
            CASE v.t = "int" -> 100 * v.n
              [] v.t = "float" -> v.n
              [] v = PyStr(<<"4", ".", "8">>) -> 480
              [] OTHER -> -1
        Value(key) ==
            IF 0 <= Hundredths(ret.input[key]) /\ Hundredths(ret.input[key]) <= 1000
            THEN Hundredths(ret.input[key]) ELSE -1
        Counted == {key \in {"cleanliness", "communication", "location"} : Value(key) >= 0}
        Among(key) == IF key \in Counted THEN Value(key) ELSE 0
        sum == Among("cleanliness") + Among("communication") + Among("location")
        count == Cardinality(Counted)
    IN (ret.op = "calculate_average_rating" /\ ret.kind # "pending")
        => /\ ret.kind = "return" /\ ret.val.t = "float"
           /\ 0 <= ret.val.n /\ ret.val.n <= 1000
           /\ count = 0 => ret.val.n = 0
           /\ count > 0 => /\ 2 * (count * ret.val.n - sum) <= count
                           /\ 2 * (sum - count * ret.val.n) <= count
           /\ ret.input = [cleanliness |-> PyFloat(450), communication |-> PyFloat(480),
                           location |-> PyFloat(420), review_count |-> PyInt(150)]
                => ret.val.n = 450

\* the mean of 4.5 and the string "4.8", with an entry of 11 and a
\* review_count of 7 left out, is 4.65
C22_Witness ==
    /\ ret.op = "calculate_average_rating" /\ ret.kind = "return"
    /\ ret.input = [cleanliness |-> PyFloat(450), communication |-> PyStr(<<"4", ".", "8">>),
                    location |-> PyInt(11), review_count |-> PyInt(7)]
    /\ ret.val = PyFloat(465)

\* C23: extract_amenities groups by category title: for every title T of the
\* input the list under T holds, in input order, the display strings of all
\* titled items of all entries titled T; items without a title are skipped
\* and no key maps to an empty list
C23_AmenitiesGrouped ==
    LET in == ret.input
        Display(items) ==
            [i \in DOMAIN SelectSeq(items, LAMBDA x : x # "") |->
                PyStr(<<SelectSeq(items, LAMBDA x : x # "")[i]>>)]
        Grouped(T) ==
            LET upto[n \in 0..Len(in)] ==
                    IF n = 0 THEN <<>>
                    ELSE upto[n - 1]
                             \o (IF in[n].title = T THEN Display(in[n].items) ELSE <<>>)
            IN upto[Len(in)]
        Titles == {in[i].title : i \in DOMAIN in}
    IN (ret.op = "extract_amenities" /\ ret.kind # "pending")
        => /\ ret.kind = "return" /\ ret.val.t = "dict"
           /\ DOMAIN ret.val.d = {<<T>> : T \in {U \in Titles : Grouped(U) # <<>>}}
           /\ \A T \in Titles :
                  Grouped(T) # <<>> => ret.val.d[<<T>>] = PyList(Grouped(T))

====
